---- MODULE Spec2Model ----
(***************************************************************************)
(* llm9p: an LLM exposed as a 9P2000 file tree.                            *)
(*                                                                         *)
(* The model covers the connection server (per-connection fid table and    *)
(* request dispatch), the session manager (fid number -> session), the     *)
(* session-aware files ask / new / context, the streaming pipeline         *)
(* (stream/ask, stream/chunk and the producer goroutine of Client) and the *)
(* request loop of a connection (frame in, dispatch, frame out).           *)
(*                                                                         *)
(* Spec:       two clients on the session-aware files                      *)
(* SpecStream: two clients on stream/ask and stream/chunk                  *)
(* SpecChunks: the backend's StartStream and ReadStreamChunk, called       *)
(*             directly                                                    *)
(* SpecServer: one client, every message type, frame by frame; FairServer  *)
(*             adds the progress of the connection's goroutine             *)
(* SpecHistory:     session asks next to a stream on the same backend      *)
(* SpecTwoSessions: asks, reads and writes on sessions of two fid numbers  *)
(* SpecCompact:     the files over one shared backend, with compaction     *)
(* SpecTemperature: SetTemperature and the temperature file                *)
(* SpecCodec:       Encode and Decode of messages, Stat, Qid and strings   *)
(*                                                                         *)
(* Byte strings are sequences of one-character strings; the codec works on *)
(* sequences of byte values.                                               *)
(***************************************************************************)
EXTENDS Integers, Sequences, FiniteSets, TLC

(***************************************************************************)
(* Bounds of the model                                                     *)
(***************************************************************************)
\* an ask or a context write is accepted by the model only while the session
\* holds at most this many messages
MaxMsgs == 2
\* streams started in one behaviour of SpecStream or SpecChunks
MaxStreams == 2
\* frames accepted from one connection in one behaviour of SpecServer
MaxReqs == 4

Conns == {"A", "B"}
Fids == {0, 1}
NoConn == "-"

(***************************************************************************)
(* Program constants                                                       *)
(***************************************************************************)
MaxMessageSize == 8192
\* contextLimitForModel: every branch returns 200000
ContextLimit == 200000
StreamChanCap == 100
\* ReadMessage: "if size < 7", the length of size[4] type[1] tag[2]
MinFrameSize == 7
\* fixed part of an encoded Stat: size, type, dev, qid, mode, atime, mtime, length
StatFixedLen == 2 + 2 + 4 + 13 + 4 + 4 + 4 + 8
\* Rread frame overhead: size, type, tag, count
ReadOverhead == 4 + 1 + 2 + 4

(***************************************************************************)
(* Byte strings                                                            *)
(***************************************************************************)
NL == "\n"
Whitespace == {" ", "\n", "\t", "\r"}

Min(a, b) == IF a < b THEN a ELSE b

RECURSIVE TrimLeft(_)
TrimLeft(s) ==
    IF s # <<>> /\ Head(s) \in Whitespace THEN TrimLeft(Tail(s)) ELSE s

RECURSIVE TrimRight(_)
TrimRight(s) ==
    IF s # <<>> /\ s[Len(s)] \in Whitespace
    THEN TrimRight(SubSeq(s, 1, Len(s) - 1)) ELSE s

\* a TrimSpace that leaves the text as it is
KeepSpace(s) == s

\* strings.TrimSpace
TrimSpace(s) == TrimRight(TrimLeft(s))

\* "Add newline if not present"
WithNewline(content) ==
    IF content # <<>> /\ content[Len(content)] # NL
    THEN content \o <<NL>> ELSE content

\* the (n, err) result of "if offset >= len(content) { return 0, io.EOF };
\* n := copy(p, content[offset:])" with len(p) = count
ReadAt(content, offset, count) ==
    IF offset >= Len(content)
    THEN [data |-> <<>>, eof |-> TRUE]
    ELSE [data |-> SubSeq(content, offset + 1, Min(Len(content), offset + count)),
          eof |-> FALSE]

ErrorPrefix == <<"E", "r", "r", "o", "r", ":", " ">>

(***************************************************************************)
(* The node tree built by NewRoot                                          *)
(***************************************************************************)
NoNode == "none"
Nodes == {"root", "ask", "new", "context", "model", "temperature", "system",
          "thinking", "prefill", "tokens", "usage", "compact", "_example",
          "stream", "sask", "chunk"}

\* children of the two directories, in insertion order: <<name, node>>
RootOrder == << <<"ask", "ask">>, <<"new", "new">>, <<"context", "context">>,
                <<"model", "model">>, <<"temperature", "temperature">>,
                <<"system", "system">>, <<"thinking", "thinking">>,
                <<"prefill", "prefill">>, <<"tokens", "tokens">>,
                <<"usage", "usage">>, <<"compact", "compact">>,
                <<"_example", "_example">>, <<"stream", "stream">> >>
StreamOrder == << <<"ask", "sask">>, <<"chunk", "chunk">> >>

IsDir(node) == node \in {"root", "stream"}

Order(dir) == IF dir = "root" THEN RootOrder ELSE StreamOrder

\* StaticDir.Lookup: the child node, or NoNode for ErrNotFound
Lookup(dir, name) ==
    LET hits == {i \in 1..Len(Order(dir)) : Order(dir)[i][1] = name}
    IN  IF hits = {} THEN NoNode ELSE Order(dir)[CHOOSE i \in hits : TRUE][2]

\* the nodes that implement FidAwareFile
FidAware(node) == node \in {"ask", "new", "context"}

\* Stat.Encode: number of bytes of the encoded Stat of a child called name
\* (uid, gid and muid are "llm")
StatLen(name) == StatFixedLen + (2 + Len(name)) + 3 * (2 + 3)

RECURSIVE DirLen(_)
\* StaticDir.Read: length of the packed Stat entries of the children
DirLen(order) ==
    IF order = <<>> THEN 0 ELSE StatLen(Head(order)[1]) + DirLen(Tail(order))

\* the packed Stat entries; the model keeps their length, not their bytes
DirBytes(dir) == [i \in 1..DirLen(Order(dir)) |-> "#"]

(***************************************************************************)
(* Sessions (llm.Session) and the session manager                          *)
(***************************************************************************)
SessIds == 1..(Cardinality(Fids) + Cardinality(Conns))
NoSess == 0

Message(role, content) == [Role |-> role, Content |-> content]

\* a free slot of the session heap.  The field returned is history, read by the
\* properties only: the token counts AskWithHistory has returned for the session
\* since it was made or last reset
FreeSession == [live |-> FALSE, ID |-> 0, messages |-> <<>>, lastResponse |-> <<>>,
                lastTokens |-> 0, totalTokens |-> 0, returned |-> 0]

NewSession(fid) == [live |-> TRUE, ID |-> fid, messages |-> <<>>, lastResponse |-> <<>>,
                    lastTokens |-> 0, totalTokens |-> 0, returned |-> 0]

\* history: AskWithHistory has returned (response, tokens, nil) for the session
Returns(s, tokens) == [s EXCEPT !.returned = @ + tokens]

AddMessage(s, role, content) ==
    [s EXCEPT !.messages = Append(@, Message(role, content))]

AddSystemMessage(s, content) ==
    [s EXCEPT !.messages = <<Message("system", content)>> \o @]

SetLastResponse(s, response) == [s EXCEPT !.lastResponse = response]

AddTokens(s, tokens) ==
    [s EXCEPT !.lastTokens = tokens, !.totalTokens = @ + tokens]

SessionReset(s) ==
    [s EXCEPT !.messages = <<>>, !.lastResponse = <<>>,
              !.lastTokens = 0, !.totalTokens = 0, !.returned = 0]


\* func (s *Session) MessagesJSON: json.MarshalIndent(s.messages, "", "  ")
Chars(role) ==
    CASE role = "system" -> <<"s", "y", "s", "t", "e", "m">>
      [] role = "user" -> <<"u", "s", "e", "r">>
      [] OTHER -> <<"a", "s", "s", "i", "s", "t", "a", "n", "t">>

RECURSIVE JSONEscape(_)
\* encoding/json escapes of the characters the model uses
JSONEscape(s) ==
    IF s = <<>> THEN <<>>
    ELSE (CASE Head(s) = "\n" -> <<"\\", "n">>
            [] Head(s) = "\t" -> <<"\\", "t">>
            [] Head(s) = "\r" -> <<"\\", "r">>
            [] OTHER -> <<Head(s)>>) \o JSONEscape(Tail(s))

JSONMessage(m) ==
    <<" ", " ", "{", "\n">>
    \o <<" ", " ", " ", " ", "\"", "r", "o", "l", "e", "\"", ":", " ", "\"">>
    \o Chars(m.Role) \o <<"\"", ",", "\n">>
    \o <<" ", " ", " ", " ", "\"", "c", "o", "n", "t", "e", "n", "t", "\"", ":", " ", "\"">>
    \o JSONEscape(m.Content) \o <<"\"", "\n">>
    \o <<" ", " ", "}">>

RECURSIVE JSONList(_)
JSONList(msgs) ==
    IF msgs = <<>> THEN <<>>
    ELSE JSONMessage(Head(msgs))
         \o (IF Len(msgs) > 1 THEN <<",", "\n">> ELSE <<"\n">>)
         \o JSONList(Tail(msgs))

MessagesJSON(s) ==
    IF s.messages = <<>> THEN <<"[", "]">>
    ELSE <<"[", "\n">> \o JSONList(s.messages) \o <<"]">>

(***************************************************************************)
(* State                                                                   *)
(***************************************************************************)
VARIABLES
    alive,        \* alive[c]: connection c is being served by handleConn
    fids,         \* fids[c][f]: clientState.fids, the node bound to fid f (NoNode: unbound)
    msize,        \* msize[c]: clientState.msize
    wire,         \* wire[c]: the loop of handleConn on connection c: where it is, the tag
                  \* it read, and the tags of the frames read (rx) and written (tx)
    req,          \* req[c]: the request connection c is handling (its goroutine's locals)
    sm,           \* SessionManager.sessions: fid number -> session (NoSess: no entry)
    sessions,     \* the Session objects, by identity
    streaming,    \* Client.streaming
    streamChan,   \* Client.streamChan: the current channel (0: nil)
    chans,        \* the channels made so far: [q: buffered chunks, closed]
    messages,     \* Client.messages, the backend's own transcript
    lastTokens,   \* Client.lastTokens
    totalTokens,  \* Client.totalTokens
    prod,         \* the producer goroutine of StartStream
    temperature,  \* Client.temperature, in hundredths
    lastResponse, \* AskFile.lastResponse of the ask file over the shared backend
    lastResult,   \* CompactFile.lastResult
    ev,           \* the step just taken: the request answered and its response
    \* history variables, read by the properties only
    acked,        \* acked[c][f]: outcome of the last acknowledged prompt on the ask fid f of c
    clunked,      \* clunked[c]: the fids of c clunked and not bound again since
    full,         \* full[ch]: the text the source of the stream of channel ch delivers,
                  \* and whether the source fails
    recvd         \* recvd[ch]: concatenation of the data of the Rreads of stream/chunk
                  \* served from channel ch

serverVars == <<alive, fids, msize, wire, req>>
sessVars == <<sm, sessions>>
streamVars == <<streaming, streamChan, chans, messages, lastTokens, totalTokens, prod>>
backendVars == <<temperature, lastResponse, lastResult>>
histVars == <<acked, clunked, full, recvd>>
vars == <<serverVars, sessVars, streamVars, backendVars, ev, histVars>>

IdleReq == [pc |-> "idle", fid |-> 0, sess |-> NoSess, history |-> <<>>, tokens0 |-> 0,
            prompt |-> <<>>, data |-> <<>>, response |-> <<>>, tokens |-> 0,
            count |-> 0, ch |-> 0]

NoEvent == [conn |-> NoConn, op |-> "", fid |-> 0, node |-> NoNode, res |-> "",
            err |-> "", data |-> <<>>, n |-> 0, arg |-> <<>>, off |-> 0, cnt |-> 0,
            eof |-> FALSE, newfid |-> 0, qids |-> <<>>, ch |-> 0]

\* the request of connection c on fid f, with the node f was bound to
Request(c, op, f) ==
    [NoEvent EXCEPT !.conn = c, !.op = op, !.fid = f, !.node = fids[c][f]]

\* errorResponse
Rerror(r, msg) == [r EXCEPT !.res = "Rerror", !.err = msg]

\* a step of a handler that does not answer yet
Pending(c, op, f) == [Request(c, op, f) EXCEPT !.res = "-"]

NoAck == [kind |-> "none", text |-> <<>>]

\* handleConn waiting in dec.ReadMessage, nothing read or written yet
NoWire == [pc |-> "read", tag |-> 0, rx |-> <<>>, tx |-> <<>>]

NoProducer == [pc |-> "none", ch |-> 0, src |-> <<>>, fails |-> FALSE,
               fullResponse |-> <<>>, tokens |-> 0]

(***************************************************************************)
(* float64 values of the temperature setting: finite values are kept in      *)
(* hundredths, NaN and the infinities are values of their own               *)
(***************************************************************************)
Num(h) == [kind |-> "num", v |-> h]
NaN == [kind |-> "nan", v |-> 0]
PosInf == [kind |-> "+inf", v |-> 0]
NegInf == [kind |-> "-inf", v |-> 0]

\* the Go operator < on float64: every comparison with NaN is false
FloatLt(a, b) ==
    IF a.kind = "nan" \/ b.kind = "nan" THEN FALSE
    ELSE IF a.kind = "-inf" THEN b.kind # "-inf"
    ELSE IF a.kind = "+inf" THEN FALSE
    ELSE IF b.kind = "-inf" THEN FALSE
    ELSE IF b.kind = "+inf" THEN TRUE
    ELSE a.v < b.v

\* NewClient: "temperature: 0.7"
DefaultTemperature == Num(70)

\* NewClient, NewAskFile, NewCompactFile: lastResult "ready\n"
InitBackend ==
    /\ temperature = DefaultTemperature
    /\ lastResponse = <<>>
    /\ lastResult = [kind |-> "ready", tokens |-> 0]

Init ==
    /\ alive = [c \in Conns |-> TRUE]
    /\ fids = [c \in Conns |-> [f \in Fids |-> NoNode]]
    /\ msize = [c \in Conns |-> MaxMessageSize]
    /\ wire = [c \in Conns |-> NoWire]
    /\ req = [c \in Conns |-> IdleReq]
    /\ sm = [f \in Fids |-> NoSess]
    /\ sessions = [i \in SessIds |-> FreeSession]
    /\ streaming = FALSE
    /\ streamChan = 0
    /\ chans = <<>>
    /\ messages = <<>>
    /\ lastTokens = 0
    /\ totalTokens = 0
    /\ prod = NoProducer
    /\ InitBackend
    /\ ev = NoEvent
    /\ acked = [c \in Conns |-> [f \in Fids |-> NoAck]]
    /\ clunked = [c \in Conns |-> {}]
    /\ full = <<>>
    /\ recvd = <<>>


(***************************************************************************)
(* Session manager                                                         *)
(***************************************************************************)
FreeIds(heap) == {i \in SessIds : ~heap[i].live}

\* SessionManager.GetOrCreate on the table t = [sm, sessions]: the table after the
\* call, the session returned and whether it was created
GetOrCreate(t, fid) ==
    IF t.sm[fid] # NoSess
    THEN [sm |-> t.sm, sessions |-> t.sessions, id |-> t.sm[fid], made |-> FALSE]
    ELSE LET id == CHOOSE i \in FreeIds(t.sessions) :
                       \A j \in FreeIds(t.sessions) : i <= j
         IN  [sm |-> [t.sm EXCEPT ![fid] = id],
              sessions |-> [t.sessions EXCEPT ![id] = NewSession(fid)],
              id |-> id, made |-> TRUE]

\* SessionManager.Remove
Remove(smv, fid) == [smv EXCEPT ![fid] = NoSess]

\* a session object neither in the table nor held by a running request is garbage
Referenced(smv, reqv, id) ==
    \/ \E f \in Fids : smv[f] = id
    \/ \E c \in Conns : reqv[c].pc # "idle" /\ reqv[c].sess = id

Collect(smv, heap, reqv) ==
    [i \in SessIds |-> IF Referenced(smv, reqv, i) THEN heap[i] ELSE FreeSession]

Table == [sm |-> sm, sessions |-> sessions]

(***************************************************************************)
(* Connection server: handleAttach, handleWalk, handleOpen, handleStat,     *)
(* handleClunk                                                             *)
(***************************************************************************)
Serving(c) == alive[c] /\ req[c].pc = "idle"

\* a lock that stays held while AskWithHistory runs
HeldInCallAlways == {c \in Conns : req[c].pc = "askCall"}

\* the connections that hold SessionManager.mu or a Session.mu while their backend call
\* is in flight: GetOrCreate and session.Messages have returned, and released their
\* locks by defer, before SessionManager.Ask calls AskWithHistory
HeldInCall == {}

\* sm.mu.Lock, s.mu.Lock and their RLock forms in a request of c: no lock is taken
\* inside another, so the request waits only for a holder that is inside a call
Acquire(c) == HeldInCall \ {c} = {}

\* an assignment to the fid table that is lost
BindNone(tbl, f, node) == tbl

\* state.fids[fid] = node
Bind(tbl, f, node) == [tbl EXCEPT ![f] = node]

\* a clunk that keeps the binding
UnbindKeep(tbl, f) == tbl

\* delete(state.fids, msg.Fid)
Unbind(tbl, f) == [tbl EXCEPT ![f] = NoNode]

HandleAttach(c, f) ==
    /\ Serving(c)
    /\ IF fids[c][f] # NoNode
       THEN /\ ev' = Rerror(Request(c, "Tattach", f), "fid already in use")
            /\ UNCHANGED <<fids, clunked>>
       ELSE /\ fids' = [fids EXCEPT ![c] = Bind(@, f, "root")]
            /\ clunked' = [clunked EXCEPT ![c] = @ \ {f}]
            /\ ev' = [Request(c, "Tattach", f) EXCEPT !.res = "Rattach", !.qids = <<"root">>]
    /\ UNCHANGED <<alive, msize, wire, backendVars, req, sessVars, streamVars, acked, full, recvd>>

RECURSIVE WalkPath(_, _, _)
\* the loop of handleWalk: the error (a step through a node that is no Dir), the
\* Qids collected and the node reached
WalkPath(current, names, qids) ==
    IF names = <<>> THEN [err |-> "", qids |-> qids, cur |-> current]
    ELSE IF ~IsDir(current)
    THEN [err |-> "not a directory", qids |-> qids, cur |-> current]
    ELSE LET next == Lookup(current, Head(names))
         IN  IF next = NoNode
             THEN [err |-> "", qids |-> qids, cur |-> current]
             ELSE WalkPath(next, Tail(names), Append(qids, next))

\* a walk that binds newfid whatever it resolved
WalkBindsAlways(qids, names) == TRUE

\* "if len(qids) == len(msg.Names)"
WalkBinds(qids, names) == Len(qids) = Len(names)

HandleWalk(c, f, newfid, names) ==
    LET r == [Request(c, "Twalk", f) EXCEPT !.newfid = newfid, !.arg = names]
        w == WalkPath(fids[c][f], names, <<>>)
    IN
    /\ Serving(c)
    /\ IF fids[c][f] = NoNode
       THEN /\ ev' = Rerror(r, "bad fid")
            /\ UNCHANGED <<fids, clunked>>
       ELSE IF f # newfid /\ fids[c][newfid] # NoNode
       THEN /\ ev' = Rerror(r, "fid already in use")
            /\ UNCHANGED <<fids, clunked>>
       ELSE IF w.err # ""
       THEN /\ ev' = Rerror(r, w.err)
            /\ UNCHANGED <<fids, clunked>>
       ELSE /\ ev' = [r EXCEPT !.res = "Rwalk", !.qids = w.qids]
            /\ IF WalkBinds(w.qids, names)
               THEN /\ fids' = [fids EXCEPT ![c] = Bind(@, newfid, w.cur)]
                    /\ clunked' = [clunked EXCEPT ![c] = @ \ {newfid}]
               ELSE UNCHANGED <<fids, clunked>>
    /\ UNCHANGED <<alive, msize, wire, backendVars, req, sessVars, streamVars, acked, full, recvd>>

HandleOpen(c, f) ==
    /\ Serving(c)
    /\ ev' = IF fids[c][f] = NoNode
             THEN Rerror(Request(c, "Topen", f), "bad fid")
             ELSE [Request(c, "Topen", f) EXCEPT !.res = "Ropen", !.qids = <<fids[c][f]>>]
    /\ UNCHANGED <<serverVars, backendVars, sessVars, streamVars, histVars>>

\* Stat().Length of the nodes of the tree
StatLength(node) == 0

HandleStat(c, f) ==
    /\ Serving(c)
    /\ ev' = IF fids[c][f] = NoNode
             THEN Rerror(Request(c, "Tstat", f), "bad fid")
             ELSE [Request(c, "Tstat", f) EXCEPT !.res = "Rstat", !.n = StatLength(fids[c][f])]
    /\ UNCHANGED <<serverVars, backendVars, sessVars, streamVars, histVars>>

\* AskFile.CloseFid, NewFile.CloseFid, ContextFile.CloseFid: the session table after
\* CloseFid(fid) on node
ClosesSession(node) == node = "ask"

CloseFid(node, smv, fid) == IF ClosesSession(node) THEN Remove(smv, fid) ELSE smv

HandleClunk(c, f) ==
    LET node == fids[c][f]
        smv == IF FidAware(node) THEN CloseFid(node, sm, f) ELSE sm
    IN
    /\ Serving(c)
    /\ IF node = NoNode
       THEN /\ ev' = Rerror(Request(c, "Tclunk", f), "bad fid")
            /\ UNCHANGED <<fids, sessVars, acked, clunked>>
       ELSE /\ FidAware(node) => Acquire(c)
            /\ sm' = smv
            /\ sessions' = Collect(smv, sessions, req)
            /\ fids' = [fids EXCEPT ![c] = Unbind(@, f)]
            /\ clunked' = [clunked EXCEPT ![c] = @ \cup {f}]
            /\ acked' = [acked EXCEPT ![c][f] = NoAck]
            /\ ev' = [Request(c, "Tclunk", f) EXCEPT !.res = "Rclunk"]
    /\ UNCHANGED <<alive, msize, wire, backendVars, req, streamVars, full, recvd>>


(***************************************************************************)
(* handleRead                                                              *)
(***************************************************************************)
\* uint32 values that may exceed the integers of the model checker are kept as two
\* 16-bit limbs [hi, lo]
Limb == 2^16

\* a - b in uint32 arithmetic, for a and b below 2^31
U32Sub(a, b) ==
    IF a >= b
    THEN [hi |-> (a - b) \div Limb, lo |-> (a - b) % Limb]
    ELSE [hi |-> (Limb - 1) - ((b - a - 1) \div Limb),
          lo |-> (Limb - 1) - ((b - a - 1) % Limb)]

\* n > v, for n below 2^31 and v in limbs
U32Gt(n, v) ==
    \/ n \div Limb > v.hi
    \/ (n \div Limb = v.hi /\ n % Limb > v.lo)

\* "maxData := state.msize - 4 - 1 - 2 - 4" in uint32, and
\* "if count > maxData { count = maxData }"
ClampCount(c, cnt) ==
    LET maxData == U32Sub(msize[c], ReadOverhead)
    IN  IF U32Gt(cnt, maxData) THEN maxData.hi * Limb + maxData.lo ELSE cnt

\* AskFile.ReadFid and ContextFile.ReadFid: the content read for session s
AskContent(s) == WithNewline(s.lastResponse)
ContextContent(s) == MessagesJSON(s) \o <<NL>>

\* the response to a read answered with the (n, err) result rd
Rread(r, rd) == [r EXCEPT !.res = "Rread", !.data = rd.data, !.n = Len(rd.data),
                          !.eof = rd.eof]

\* ReadFid of ask or context on fid f
SessionRead(c, f, r, count) ==
    LET g == GetOrCreate(Table, f)
        content(s) == IF fids[c][f] = "ask" THEN AskContent(s) ELSE ContextContent(s)
    IN
    /\ Acquire(c)
    /\ sm' = g.sm
    /\ sessions' = g.sessions
    /\ ev' = Rread(r, ReadAt(content(g.sessions[g.id]), r.off, count))
    /\ UNCHANGED <<serverVars, backendVars, streamVars, acked, clunked, full, recvd>>

\* ChunkFile.Read up to the call of ReadStreamChunk
ChunkReadBegin(c, f, r, count) ==
    IF ~streaming
    THEN /\ ev' = [Rread(r, [data |-> <<>>, eof |-> TRUE]) EXCEPT !.ch = streamChan]
         /\ UNCHANGED <<serverVars, backendVars, sessVars, streamVars, histVars>>
    ELSE /\ req' = [req EXCEPT ![c] = [IdleReq EXCEPT !.pc = "chunkChan", !.fid = f,
                                                      !.count = count]]
         /\ ev' = Pending(c, "Tread", f)
         /\ UNCHANGED <<alive, fids, msize, wire, backendVars, sessVars, streamVars, histVars>>

DigitChar(d) == <<"0", "1", "2", "3", "4", "5", "6", "7", "8", "9">>[d + 1]

RECURSIVE Itoa(_)
\* fmt.Sprintf("%d", n) for n >= 0
Itoa(n) == IF n < 10 THEN <<DigitChar(n)>> ELSE Itoa(n \div 10) \o <<DigitChar(n % 10)>>

\* the files that format a counter of the backend on every read
TextNodes == {"tokens", "usage"}

\* TokensFile.Read: "%d\n" of LastTokens(); UsageFile.Read: "%d/%d\n" of TotalTokens()
\* and ContextLimit()
TextContent(node) ==
    IF node = "tokens" THEN Itoa(lastTokens) \o <<NL>>
    ELSE Itoa(totalTokens) \o <<"/">> \o Itoa(ContextLimit) \o <<NL>>

HandleRead(c, f, off, cnt) ==
    LET node == fids[c][f]
        r == [Request(c, "Tread", f) EXCEPT !.off = off, !.cnt = cnt]
        count == ClampCount(c, cnt)
    IN
    /\ Serving(c)
    /\ IF node = NoNode
       THEN /\ ev' = Rerror(r, "bad fid")
            /\ UNCHANGED <<serverVars, backendVars, sessVars, streamVars, histVars>>
       ELSE IF node \in {"ask", "context"}
       THEN SessionRead(c, f, r, count)
       ELSE IF node = "chunk"
       THEN ChunkReadBegin(c, f, r, count)
       ELSE /\ ev' = IF IsDir(node) THEN Rread(r, ReadAt(DirBytes(node), off, count))
                     ELSE IF node \in TextNodes
                     THEN Rread(r, ReadAt(TextContent(node), off, count))
                     ELSE Rerror(r, "permission denied")
            /\ UNCHANGED <<serverVars, backendVars, sessVars, streamVars, histVars>>

\* "int64(msg.Offset)" for an offset u of the wire, given as four 16-bit limbs, least
\* significant first.  A content is shorter than 2^16 bytes, so the value is kept up
\* to what a comparison with a length can tell: -1 stands for every negative value
\* and 2^16 for every value of 2^16 or more
Int64(u) ==
    IF u[4] >= Limb \div 2 THEN -1
    ELSE IF u[2] # 0 \/ u[3] # 0 \/ u[4] # 0 THEN Limb
    ELSE u[1]

\* the nodes whose Read or ReadFid ends in "copy(p, content[offset:])"
Slices(node) == IsDir(node) \/ node \in TextNodes \/ node \in {"ask", "context"}

\* handleRead with the offset DecodeTread took from the frame.  A negative
\* int64(msg.Offset) passes "offset >= int64(len(content))" and the slice expression
\* panics; nothing recovers, so the process ends with every connection
HandleTread(c, f, u, cnt) ==
    LET node == fids[c][f]
        g == GetOrCreate(Table, f)
    IN
    IF Int64(u) < 0 /\ node # NoNode /\ Slices(node)
    THEN /\ Serving(c)
         /\ FidAware(node) => Acquire(c)
         /\ sm' = IF FidAware(node) THEN g.sm ELSE sm
         /\ sessions' = IF FidAware(node) THEN g.sessions ELSE sessions
         /\ alive' = [d \in Conns |-> FALSE]
         /\ ev' = [Request(c, "Tread", f) EXCEPT !.off = -1, !.cnt = cnt, !.res = "panic",
                       !.err = "slice bounds out of range"]
         /\ UNCHANGED <<fids, msize, wire, req, backendVars, streamVars, histVars>>
    ELSE HandleRead(c, f, Int64(u), cnt)

(***************************************************************************)
(* handleWrite                                                             *)
(***************************************************************************)
Rwrite(r, n) == [r EXCEPT !.res = "Rwrite", !.n = n]

\* the model stops feeding a session that holds more than MaxMsgs - k messages
Room(f, k) == IF sm[f] = NoSess THEN TRUE ELSE Len(sessions[sm[f]].messages) + k <= MaxMsgs

\* AskFile.WriteFid up to the backend call of SessionManager.Ask
AskWriteBegin(c, f, r) ==
    LET prompt == TrimSpace(r.arg)
        g == GetOrCreate(Table, f)
    IN
    IF prompt = <<>>
    THEN /\ ev' = Rwrite(r, Len(r.arg))
         /\ UNCHANGED <<serverVars, backendVars, sessVars, streamVars, histVars>>
    ELSE /\ Room(f, 2)
         /\ Acquire(c)
         /\ sm' = g.sm
         /\ sessions' = g.sessions
         /\ req' = [req EXCEPT ![c] =
                       [IdleReq EXCEPT !.pc = "askCall", !.fid = f, !.sess = g.id,
                                       !.history = g.sessions[g.id].messages,
                                       !.tokens0 = g.sessions[g.id].totalTokens,
                                       !.prompt = prompt, !.data = r.arg]]
         /\ ev' = Pending(c, "Twrite", f)
         /\ UNCHANGED <<alive, fids, msize, wire, backendVars, streamVars, acked, clunked, full, recvd>>

\* NewFile.WriteFid: SessionManager.Reset
NewWrite(c, f, r) ==
    LET g == GetOrCreate(Table, f)
    IN
    /\ Acquire(c)
    /\ sm' = g.sm
    /\ sessions' = [g.sessions EXCEPT ![g.id] = SessionReset(@)]
    /\ ev' = Rwrite(r, Len(r.arg))
    /\ UNCHANGED <<serverVars, backendVars, streamVars, acked, clunked, full, recvd>>

\* ContextFile.WriteFid
ContextWrite(c, f, r) ==
    LET msg == TrimSpace(r.arg)
        g == GetOrCreate(Table, f)
    IN
    IF msg = <<>>
    THEN /\ ev' = Rwrite(r, Len(r.arg))
         /\ UNCHANGED <<serverVars, backendVars, sessVars, streamVars, histVars>>
    ELSE /\ Room(f, 1)
         /\ Acquire(c)
         /\ sm' = g.sm
         /\ sessions' = [g.sessions EXCEPT ![g.id] = AddSystemMessage(@, msg)]
         /\ ev' = Rwrite(r, Len(r.arg))
         /\ UNCHANGED <<serverVars, backendVars, streamVars, acked, clunked, full, recvd>>


(***************************************************************************)
(* Streaming: Client.StartStream, its producer goroutine, ReadStreamChunk  *)
(***************************************************************************)
\* what the streaming API of the backend delivers: text deltas, then the end or an error
Sources == {[chunks |-> << <<"a">>, <<"b", "c">> >>, fails |-> FALSE, tokens |-> 2],
            [chunks |-> << <<"a">> >>, fails |-> TRUE, tokens |-> 0],
            [chunks |-> <<>>, fails |-> TRUE, tokens |-> 0]}

\* a prompt that the backend answers with more text deltas than streamChan holds
LongPrompt == <<"l">>
LongSource == [chunks |-> [i \in 1..(StreamChanCap + 1) |-> <<"a">>], fails |-> FALSE,
               tokens |-> 2]

\* what Messages.NewStreaming delivers for the prompt
SourcesFor(prompt) == IF prompt = LongPrompt THEN {LongSource} ELSE Sources

RECURSIVE Concat(_)
Concat(chunks) == IF chunks = <<>> THEN <<>> ELSE Head(chunks) \o Concat(Tail(chunks))

\* fmt.Sprintf("\n[Error: %v]", err) for the error "x"
ErrorChunk == <<"\n", "[", "E", "r", "r", "o", "r", ":", " ", "x", "]">>

\* a backend on which StartStream never finds a stream in progress
StreamNeverInProgress == FALSE

\* "if c.streaming" at the head of StartStream, under c.mu
StreamInProgress == streaming

\* StreamAskFile.Write
StreamAskWrite(c, f, r) ==
    LET prompt == TrimSpace(r.arg)
    IN
    IF prompt = <<>>
    THEN /\ ev' = Rwrite(r, Len(r.arg))
         /\ UNCHANGED <<serverVars, backendVars, sessVars, streamVars, histVars>>
    ELSE IF StreamInProgress
    THEN /\ ev' = Rerror(r, "stream already in progress")
         /\ UNCHANGED <<serverVars, backendVars, sessVars, streamVars, histVars>>
    ELSE /\ Len(chans) < MaxStreams
         /\ \E src \in SourcesFor(prompt) :
              /\ prod' = [pc |-> "run", ch |-> Len(chans) + 1, src |-> src.chunks,
                          fails |-> src.fails, fullResponse |-> <<>>,
                          tokens |-> src.tokens]
              /\ full' = Append(full, [text |-> Concat(src.chunks), fails |-> src.fails])
         /\ messages' = Append(messages, Message("user", prompt))
         /\ streaming' = TRUE
         /\ chans' = Append(chans, [q |-> <<>>, closed |-> FALSE])
         /\ streamChan' = Len(chans) + 1
         /\ recvd' = Append(recvd, <<>>)
         /\ ev' = Rwrite(r, Len(r.arg))
         /\ UNCHANGED <<serverVars, backendVars, sessVars, lastTokens, totalTokens,
                        acked, clunked>>

\* "case c.streamChan <- chunk" of the loop over stream.Next()
ProducerSend ==
    /\ prod.pc = "run"
    /\ prod.src # <<>>
    /\ Len(chans[prod.ch].q) < StreamChanCap
    /\ chans' = [chans EXCEPT ![prod.ch].q = Append(@, Head(prod.src))]
    /\ prod' = [prod EXCEPT !.src = Tail(@), !.fullResponse = @ \o Head(prod.src)]
    /\ ev' = NoEvent
    /\ UNCHANGED <<serverVars, backendVars, sessVars, streaming, streamChan, messages, lastTokens,
                   totalTokens, histVars>>

\* stream.Err() # nil: "Send error as chunk"
ProducerError ==
    /\ prod.pc = "run"
    /\ prod.src = <<>>
    /\ prod.fails
    /\ Len(chans[prod.ch].q) < StreamChanCap
    /\ chans' = [chans EXCEPT ![prod.ch].q = Append(@, ErrorChunk)]
    /\ prod' = [prod EXCEPT !.pc = "rollback"]
    /\ ev' = NoEvent
    /\ UNCHANGED <<serverVars, backendVars, sessVars, streaming, streamChan, messages, lastTokens,
                   totalTokens, histVars>>

\* "Remove user message on error"
ProducerRollback ==
    /\ prod.pc = "rollback"
    /\ messages' = IF Len(messages) > 0 THEN SubSeq(messages, 1, Len(messages) - 1)
                   ELSE messages
    /\ prod' = [prod EXCEPT !.pc = "cleanup"]
    /\ ev' = NoEvent
    /\ UNCHANGED <<serverVars, backendVars, sessVars, streaming, streamChan, chans, lastTokens,
                   totalTokens, histVars>>

\* "Update state with complete response"
ProducerCommit ==
    /\ prod.pc = "run"
    /\ prod.src = <<>>
    /\ ~prod.fails
    /\ messages' = Append(messages, Message("assistant", prod.fullResponse))
    /\ lastTokens' = prod.tokens
    /\ totalTokens' = totalTokens + prod.tokens
    /\ prod' = [prod EXCEPT !.pc = "cleanup"]
    /\ ev' = NoEvent
    /\ UNCHANGED <<serverVars, backendVars, sessVars, streaming, streamChan, chans, histVars>>

\* the deferred function of the goroutine
ProducerCleanup ==
    /\ prod.pc = "cleanup"
    /\ streaming' = FALSE
    /\ chans' = [chans EXCEPT ![prod.ch].closed = TRUE]
    /\ prod' = NoProducer
    /\ ev' = NoEvent
    /\ UNCHANGED <<serverVars, backendVars, sessVars, streamChan, messages, lastTokens, totalTokens,
                   histVars>>

\* ReadStreamChunk: "streamChan := c.streamChan" under the read lock
ChunkTakeChan(c) ==
    /\ alive[c]
    /\ req[c].pc = "chunkChan"
    /\ IF streamChan = 0
       THEN /\ req' = [req EXCEPT ![c] = IdleReq]
            /\ ev' = Rread(Request(c, "Tread", req[c].fid), [data |-> <<>>, eof |-> TRUE])
       ELSE /\ req' = [req EXCEPT ![c].pc = "chunkRecv", ![c].ch = streamChan]
            /\ ev' = Pending(c, "Tread", req[c].fid)
    /\ UNCHANGED <<alive, fids, msize, wire, backendVars, sessVars, streamVars, histVars>>

\* a channel whose receive leaves the value in the buffer
DequeueNone(q) == q

\* what a receive leaves in the buffer of the channel
Dequeue(q) == Tail(q)

\* "chunk, ok := <-streamChan", then "n := copy(p, chunk)" in ChunkFile.Read
ChunkReceive(c) ==
    LET ch == req[c].ch
        r == [Request(c, "Tread", req[c].fid) EXCEPT !.ch = ch, !.cnt = req[c].count]
    IN
    /\ alive[c]
    /\ req[c].pc = "chunkRecv"
    /\ ~(chans[ch].q = <<>> /\ ~chans[ch].closed)
    /\ IF chans[ch].q # <<>>
       THEN LET chunk == Head(chans[ch].q)
                data == SubSeq(chunk, 1, Min(req[c].count, Len(chunk)))
            IN  /\ chans' = [chans EXCEPT ![ch].q = Dequeue(@)]
                /\ recvd' = [recvd EXCEPT ![ch] = @ \o data]
                /\ ev' = Rread(r, [data |-> data, eof |-> FALSE])
       ELSE /\ ev' = Rread(r, [data |-> <<>>, eof |-> TRUE])
            /\ UNCHANGED <<chans, recvd>>
    /\ req' = [req EXCEPT ![c] = IdleReq]
    /\ UNCHANGED <<alive, fids, msize, wire, backendVars, sessVars, streaming, streamChan, messages,
                   lastTokens, totalTokens, prod, acked, clunked, full>>

HandleWrite(c, f, data) ==
    LET node == fids[c][f]
        r == [Request(c, "Twrite", f) EXCEPT !.arg = data]
    IN
    /\ Serving(c)
    /\ IF node = NoNode
       THEN /\ ev' = Rerror(r, "bad fid")
            /\ UNCHANGED <<serverVars, backendVars, sessVars, streamVars, histVars>>
       ELSE IF node = "ask" THEN AskWriteBegin(c, f, r)
       ELSE IF node = "new" THEN NewWrite(c, f, r)
       ELSE IF node = "context" THEN ContextWrite(c, f, r)
       ELSE IF node = "sask" THEN StreamAskWrite(c, f, r)
       ELSE /\ ev' = Rerror(r, "permission denied")
            /\ UNCHANGED <<serverVars, backendVars, sessVars, streamVars, histVars>>


(***************************************************************************)
(* SessionManager.Ask after the snapshot of the history: the backend call  *)
(* and the four locked updates of the session                              *)
(***************************************************************************)
\* what Backend.AskWithHistory returns: (text, tokens, nil) or an error
Outcomes == {[ok |-> TRUE, text |-> <<"r">>, tokens |-> 1],
             [ok |-> FALSE, text |-> <<"x">>, tokens |-> 0]}

InAsk(c, pc) == alive[c] /\ req[c].pc = pc

\* the Twrite being answered by connection c
AskRequest(c) == [Request(c, "Twrite", req[c].fid) EXCEPT !.arg = req[c].data]

\* "if err != nil { session.SetLastResponse("Error: " + err.Error()); return "", err }"
AskFailed(s, errText) == SetLastResponse(s, ErrorPrefix \o errText)

\* Client.Ask: the prompt is appended to the backend's own transcript
OwnTranscript(msgs, prompt) == Append(msgs, Message("user", prompt))

\* AskWithHistory: the request is built from the history passed in, the settings are
\* read under RLock, and no field of the backend is written
HistoryTranscript(msgs, prompt) == msgs

\* AskWithHistory returns; on an error the ask ends, else session.AddMessage("user", prompt)
AskReturn(c, o) ==
    LET id == req[c].sess
        f == req[c].fid
    IN
    /\ InAsk(c, "askCall")
    /\ IF ~o.ok
       THEN /\ req' = [req EXCEPT ![c] = IdleReq]
            /\ sessions' = Collect(sm, [sessions EXCEPT ![id] = AskFailed(@, o.text)], req')
            /\ acked' = [acked EXCEPT ![c][f] = [kind |-> "err", text |-> o.text]]
            /\ ev' = Rwrite(AskRequest(c), Len(req[c].data))
       ELSE /\ req' = [req EXCEPT ![c].pc = "askAssistant", ![c].response = o.text,
                                  ![c].tokens = o.tokens]
            /\ sessions' = [sessions EXCEPT ![id] =
                               Returns(AddMessage(@, "user", req[c].prompt), o.tokens)]
            /\ ev' = Pending(c, "Twrite", f)
            /\ UNCHANGED <<acked>>
    /\ messages' = HistoryTranscript(messages, req[c].prompt)
    /\ UNCHANGED <<alive, fids, msize, wire, backendVars, sm, streaming, streamChan, chans,
                   lastTokens, totalTokens, prod, clunked, full, recvd>>

\* session.AddMessage("assistant", response)
AskAddAssistant(c) ==
    LET id == req[c].sess
        f == req[c].fid
    IN
    /\ InAsk(c, "askAssistant")
    /\ req' = [req EXCEPT ![c].pc = "askTokens"]
    /\ sessions' = [sessions EXCEPT ![id] = AddMessage(@, "assistant", req[c].response)]
    /\ ev' = Pending(c, "Twrite", f)
    /\ UNCHANGED <<alive, fids, msize, wire, backendVars, sm, streamVars, acked, clunked, full, recvd>>

\* session.AddTokens(tokens)
AskAddTokens(c) ==
    LET id == req[c].sess
        f == req[c].fid
    IN
    /\ InAsk(c, "askTokens")
    /\ req' = [req EXCEPT ![c].pc = "askLast"]
    /\ sessions' = [sessions EXCEPT ![id] = AddTokens(@, req[c].tokens)]
    /\ ev' = Pending(c, "Twrite", f)
    /\ UNCHANGED <<alive, fids, msize, wire, backendVars, sm, streamVars, acked, clunked, full, recvd>>

\* session.SetLastResponse(response), and AskFile.WriteFid returns len(p)
AskSetLastResponse(c) ==
    LET id == req[c].sess
        f == req[c].fid
    IN
    /\ InAsk(c, "askLast")
    /\ req' = [req EXCEPT ![c] = IdleReq]
    /\ sessions' = Collect(sm, [sessions EXCEPT ![id] = SetLastResponse(@, req[c].response)],
                           req')
    /\ acked' = [acked EXCEPT ![c][f] = [kind |-> "ok", text |-> req[c].response]]
    /\ ev' = Rwrite(AskRequest(c), Len(req[c].data))
    /\ UNCHANGED <<alive, fids, msize, wire, backendVars, sm, streamVars, clunked, full, recvd>>

(***************************************************************************)
(* handleConn returns: EOF, a read error or a write error on the connection *)
(***************************************************************************)
\* the session table when the connection ends: handleConn drops its clientState
\* and calls nothing on the files
CloseSessions(c, smv) == smv

ConnClose(c) ==
    /\ Serving(c)
    /\ alive' = [alive EXCEPT ![c] = FALSE]
    /\ fids' = [fids EXCEPT ![c] = [f \in Fids |-> NoNode]]
    /\ sm' = CloseSessions(c, sm)
    /\ sessions' = Collect(sm', sessions, req)
    /\ clunked' = [clunked EXCEPT ![c] = {}]
    /\ acked' = [acked EXCEPT ![c] = [f \in Fids |-> NoAck]]
    /\ ev' = [NoEvent EXCEPT !.conn = c, !.op = "close"]
    /\ UNCHANGED <<msize, wire, backendVars, req, streamVars, full, recvd>>

(***************************************************************************)
(* Specifications                                                          *)
(***************************************************************************)
\* the requests of the clients.  A issues every request on its fids, with prompts
\* for ask and new and blank data for context; B is a second client on its own
\* connection that attaches, walks to ask with the same fid numbers and sends prompts
AttachFids(c) == {0}
WalkFids(c) == {1}
WalkNames(c) == IF c = "A" THEN {<<"ask">>, <<"new">>, <<"context">>, <<"ask", "x">>}
                ELSE {<<"ask">>}
OtherFids(c) == IF c = "A" THEN Fids ELSE {}
WriteFids(c) == IF c = "A" THEN Fids ELSE {1}
Prompts == {<<"p", "\n">>, <<"q">>}
Blanks == {<<" ">>}
WriteData(c, node) == IF c # "A" THEN {<<"q">>}
                      ELSE IF node = "context" THEN Blanks
                      ELSE {<<"p", "\n">>} \cup Blanks
Writes(c) == {w \in WriteFids(c) \X (Prompts \cup Blanks) : w[2] \in WriteData(c, fids[c][w[1]])}
Closing(c) == IF c = "A" THEN {c} ELSE {}
Offsets == {0, 2}
Counts == {64}

\* the connection server with the session-aware files
Next ==
    \E c \in Conns :
        \/ \E f \in AttachFids(c) : HandleAttach(c, f)
        \/ \E newfid \in WalkFids(c), names \in WalkNames(c) : HandleWalk(c, 0, newfid, names)
        \/ \E f \in OtherFids(c) : HandleOpen(c, f)
        \/ \E f \in OtherFids(c) : HandleStat(c, f)
        \/ \E f \in OtherFids(c), off \in Offsets, cnt \in Counts : HandleRead(c, f, off, cnt)
        \/ \E w \in Writes(c) : HandleWrite(c, w[1], w[2])
        \/ \E f \in OtherFids(c) : HandleClunk(c, f)
        \/ \E o \in Outcomes : AskReturn(c, o)
        \/ AskAddAssistant(c)
        \/ AskAddTokens(c)
        \/ AskSetLastResponse(c)
        \/ \E d \in Closing(c) : ConnClose(d)

Spec == Init /\ [][Next]_vars

\* two clients that have walked to stream/ask (fid 0) and stream/chunk (fid 1)
InitStream ==
    /\ alive = [c \in Conns |-> TRUE]
    /\ fids = [c \in Conns |-> [f \in Fids |-> IF f = 0 THEN "sask" ELSE "chunk"]]
    /\ msize = [c \in Conns |-> MaxMessageSize]
    /\ wire = [c \in Conns |-> NoWire]
    /\ req = [c \in Conns |-> IdleReq]
    /\ sm = [f \in Fids |-> NoSess]
    /\ sessions = [i \in SessIds |-> FreeSession]
    /\ streaming = FALSE
    /\ streamChan = 0
    /\ chans = <<>>
    /\ messages = <<>>
    /\ lastTokens = 0
    /\ totalTokens = 0
    /\ prod = NoProducer
    /\ InitBackend
    /\ ev = NoEvent
    /\ acked = [c \in Conns |-> [f \in Fids |-> NoAck]]
    /\ clunked = [c \in Conns |-> {}]
    /\ full = <<>>
    /\ recvd = <<>>

StreamCounts == {1, 64}

\* the streaming pipeline
NextStream ==
    \/ \E c \in Conns, f \in Fids, data \in Prompts \cup Blanks : HandleWrite(c, f, data)
    \/ \E c \in Conns, f \in Fids, cnt \in StreamCounts : HandleRead(c, f, 0, cnt)
    \/ \E c \in Conns : ChunkTakeChan(c)
    \/ \E c \in Conns : ChunkReceive(c)
    \/ ProducerSend
    \/ ProducerError
    \/ ProducerRollback
    \/ ProducerCommit
    \/ ProducerCleanup

SpecStream == InitStream /\ [][NextStream]_vars

\* a caller of Backend.ReadStreamChunk that does not go through ChunkFile.Read: the
\* whole chunk is returned, whatever its length
ReadStreamChunk(c) ==
    /\ Serving(c)
    /\ req' = [req EXCEPT ![c] = [IdleReq EXCEPT !.pc = "chunkChan", !.fid = 1,
                                                 !.count = MaxMessageSize]]
    /\ ev' = Pending(c, "Tread", 1)
    /\ UNCHANGED <<alive, fids, msize, wire, backendVars, sessVars, streamVars, histVars>>

\* clients that start streams and call ReadStreamChunk
NextChunks ==
    \/ \E c \in Conns, data \in {<<"q">>} : HandleWrite(c, 0, data)
    \/ \E c \in Conns : ReadStreamChunk(c)
    \/ \E c \in Conns : ChunkTakeChan(c)
    \/ \E c \in Conns : ChunkReceive(c)
    \/ ProducerSend
    \/ ProducerError
    \/ ProducerRollback
    \/ ProducerCommit
    \/ ProducerCleanup

SpecChunks == InitStream /\ [][NextChunks]_vars


(***************************************************************************)
(* handleConn: the loop that reads a frame, dispatches it and writes the   *)
(* response.  SpecServer steps through the loop; the other specifications  *)
(* fuse the three into the step of the handler.                            *)
(***************************************************************************)
\* Decoder.ReadMessage: the error for the size field of a frame, "" if it is accepted
FrameError(size) ==
    IF size < MinFrameSize THEN "message too small"
    ELSE IF size > MaxMessageSize THEN "message too large"
    ELSE ""

\* dec.ReadMessage() in the loop of handleConn, and "if err != nil { ... return }"
ReadMessage(c, size, tag) ==
    /\ Serving(c)
    /\ wire[c].pc = "read"
    /\ Len(wire[c].rx) < MaxReqs
    /\ IF FrameError(size) # ""
       THEN /\ wire' = [wire EXCEPT ![c].pc = "return"]
            /\ ev' = [NoEvent EXCEPT !.conn = c, !.op = "frame", !.res = "-",
                                     !.err = FrameError(size)]
       ELSE /\ wire' = [wire EXCEPT ![c].pc = "handle", ![c].tag = tag,
                                    ![c].rx = Append(@, tag)]
            /\ ev' = [NoEvent EXCEPT !.conn = c, !.op = "frame", !.res = "-"]
    /\ UNCHANGED <<alive, fids, msize, backendVars, req, sessVars, streamVars, histVars>>

\* a frame has been read from c and handleMessage has not been called for it yet
Handling(c) == wire[c].pc = "handle" /\ ev.conn = c /\ ev.op = "frame"

\* handleVersion: the msize is clamped and stored; the fid table is not touched
HandleVersion(c, m, version) ==
    LET ms == Min(m, MaxMessageSize)
        reply == IF version \in {"9P2000", "Styx"} THEN version ELSE "unknown"
    IN
    /\ Serving(c)
    /\ msize' = [msize EXCEPT ![c] = ms]
    /\ ev' = [Request(c, "Tversion", 0) EXCEPT !.res = "Rversion", !.n = ms,
                                               !.arg = <<reply>>]
    /\ UNCHANGED <<alive, fids, wire, backendVars, req, sessVars, streamVars, histVars>>

\* handleFlush
HandleFlush(c) ==
    /\ Serving(c)
    /\ ev' = [Request(c, "Tflush", 0) EXCEPT !.res = "Rflush"]
    /\ UNCHANGED <<serverVars, backendVars, sessVars, streamVars, histVars>>

\* the default case of handleMessage, for a Tauth (type 102)
HandleUnknown(c) ==
    /\ Serving(c)
    /\ ev' = Rerror(Request(c, "Tauth", 0), "unknown message type: 102")
    /\ UNCHANGED <<serverVars, backendVars, sessVars, streamVars, histVars>>

\* DecodeTwrite: the error for a payload that declares count bytes and carries data
DecodeTwrite(count, data) ==
    IF Len(data) < count THEN "Twrite data truncated" ELSE ""

\* handleWrite from the decoding of the payload on
HandleTwrite(c, f, count, data) ==
    IF DecodeTwrite(count, data) # ""
    THEN /\ Serving(c)
         /\ ev' = Rerror([Request(c, "Twrite", f) EXCEPT !.arg = data, !.cnt = count],
                         DecodeTwrite(count, data))
         /\ UNCHANGED <<serverVars, backendVars, sessVars, streamVars, histVars>>
    ELSE HandleWrite(c, f, SubSeq(data, 1, count))

\* a response frame that carries tag 0 whatever was read
ZeroTag(c) == 0

\* the tag handleConn passes to enc.WriteMessage: the one ReadMessage returned
EchoTag(c) == wire[c].tag

\* a loop that leaves after an Rerror
NextReadUnlessError(res) == IF res = "Rerror" THEN "return" ELSE "read"

\* where the loop of handleConn goes after a response is written
NextRead(res) == "read"

\* enc.WriteMessage(respType, tag, resp) in the loop of handleConn
WriteMessage(c) ==
    /\ Serving(c)
    /\ wire[c].pc = "handle"
    /\ ev.conn = c /\ ev.op # "frame" /\ ev.res # "-"
    /\ wire' = [wire EXCEPT ![c].pc = NextRead(ev.res), ![c].tx = Append(@, EchoTag(c))]
    /\ ev' = [ev EXCEPT !.op = "sent"]
    /\ UNCHANGED <<alive, fids, msize, backendVars, req, sessVars, streamVars, histVars>>

\* the requests of the client of SpecServer
Tags == {1, 2}
FrameSizes == {6, 7, 8192, 8193}
Msizes == {8, 16, 9000}
Versions == {"9P2000", "9P2000.u"}
ServerNames == {<<>>, <<"stream">>, <<"chunk">>, <<"stream", "chunk">>, <<"ask", "x">>,
                <<"stream", "nope">>}
WriteCounts == {1, 2}

\* handleMessage: the switch on the message type
HandleMessage(c) ==
    \/ Handling(c) /\ \E m \in Msizes, version \in Versions : HandleVersion(c, m, version)
    \/ Handling(c) /\ \E f \in Fids : HandleAttach(c, f)
    \/ Handling(c) /\ \E f \in Fids, newfid \in Fids, names \in ServerNames :
                          HandleWalk(c, f, newfid, names)
    \/ Handling(c) /\ \E f \in Fids : HandleOpen(c, f)
    \/ Handling(c) /\ \E f \in Fids : HandleRead(c, f, 0, 64)
    \/ Handling(c) /\ \E f \in Fids, count \in WriteCounts :
                          HandleTwrite(c, f, count, <<" ">>)
    \/ Handling(c) /\ \E f \in Fids : HandleClunk(c, f)
    \/ Handling(c) /\ \E f \in Fids : HandleStat(c, f)
    \/ Handling(c) /\ HandleFlush(c)
    \/ Handling(c) /\ HandleUnknown(c)

\* "defer conn.Close()" when handleConn returns
Return(c) == wire[c].pc = "return" /\ ConnClose(c)

\* one client, on connection A
NextServer ==
    \/ \E size \in FrameSizes, tag \in Tags : ReadMessage("A", size, tag)
    \/ HandleMessage("A")
    \/ WriteMessage("A")
    \/ Return("A")

SpecServer == Init /\ [][NextServer]_vars

\* the goroutine of handleConn goes on from handleMessage to WriteMessage and back to
\* ReadMessage by itself: no handler of SpecServer waits for another goroutine
FairServer ==
    SpecServer /\ WF_vars(HandleMessage("A")) /\ WF_vars(WriteMessage("A"))

(***************************************************************************)
(* Properties                                                              *)
(***************************************************************************)
\* the session a request on fid number f works on: what GetOrCreate(f) returns
SessionOf(f) == IF sm[f] = NoSess THEN NewSession(f) ELSE sessions[sm[f]]

\* the history and the last response observed through fid number f
Observed(f) == [messages |-> SessionOf(f).messages,
                lastResponse |-> SessionOf(f).lastResponse]

\* the requests that name an existing fid
FidOps == {"Twalk", "Topen", "Tread", "Twrite", "Tstat", "Tclunk"}

\* the step is the answer to a request of connection c on fid f
Answers(e, c, f) == e.conn = c /\ e.fid = f /\ e.res # "-"

\* C1: session isolation.  While fid f of connection c stays bound to ask, a step
\* that is not an operation of c on f leaves the bytes a read of ask on f returns
\* unchanged: they depend only on the operations issued against f.
C1_SessionIsolation ==
    [][\A c \in Conns, f \in Fids :
          (/\ fids[c][f] = "ask"
           /\ fids'[c][f] = "ask"
           /\ ~(ev'.conn = c /\ ev'.fid = f))
          => AskContent(SessionOf(f))' = AskContent(SessionOf(f))]_vars

\* C2: fid spaces do not leak across connections.  While connection b has fid
\* number n bound to a session-aware file, no step of another connection changes
\* the history or the last response b observes through its fid n.
C2_FidSpacesIndependent ==
    [][\A b \in Conns, n \in Fids :
          (/\ FidAware(fids[b][n])
           /\ ev'.conn \in Conns \ {b})
          => Observed(n)' = Observed(n)]_vars

\* C3: after Tclunk(f) answered Rclunk on a fid that was bound to ask, new or
\* context, the session table holds no entry for f.
C3_ClunkRemovesSession ==
    (ev.op = "Tclunk" /\ ev.res = "Rclunk" /\ FidAware(ev.node)) => sm[ev.fid] = NoSess

\* C4: after Tclunk(f) has been answered with Rclunk the fid is unbound, and every
\* later Twalk, Topen, Tread, Twrite, Tstat or Tclunk naming f on that connection
\* is answered Rerror "bad fid", until Tattach or Twalk binds f again.
C4_BadFidAfterClunk ==
    [][\A c \in Conns, f \in Fids :
          /\ (ev'.conn = c /\ ev'.fid = f /\ ev'.op = "Tclunk" /\ ev'.res = "Rclunk")
             => (fids'[c][f] = NoNode /\ f \in clunked'[c])
          /\ (f \in clunked[c] /\ ev'.conn = c /\ ev'.fid = f /\ ev'.op \in FidOps)
             => (ev'.res = "Rerror" /\ ev'.err = "bad fid" /\ f \in clunked'[c])
          /\ (f \in clunked[c] /\ f \notin clunked'[c] /\ alive'[c])
             => (ev'.conn = c /\ ev'.op \in {"Tattach", "Twalk"} /\ ev'.res # "Rerror")]_vars

\* C4 happens: a fid was clunked, and a later Tread naming it got Rerror "bad fid"
C4_Witness ==
    /\ ev.conn \in Conns
    /\ ev.op = "Tread"
    /\ ev.fid \in clunked[ev.conn]
    /\ ev.res = "Rerror"
    /\ ev.err = "bad fid"

\* C5: when a connection terminates, CloseFid runs for every fid bound on it, so
\* the session table holds no entry for a fid the connection had bound to ask.
C5_CloseClunksFids ==
    [][\A c \in Conns :
          (ev'.op = "close" /\ ev'.conn = c)
          => \A f \in Fids : fids[c][f] = "ask" => sm'[f] = NoSess]_vars

\* C6: the step of a successful ask that appends the assistant response finds the
\* user prompt of that ask at the end of the message list, so that the list grows
\* by the pair (user, assistant) after all earlier messages; the return of a failed
\* ask leaves the message list unchanged.
C6_AskAppendsPair ==
    [][\A c \in Conns :
          /\ (req[c].pc = "askAssistant" /\ req'[c].pc = "askTokens")
             => LET before == sessions[req[c].sess].messages
                    after == sessions'[req[c].sess].messages
                IN  /\ before # <<>>
                    /\ before[Len(before)] = Message("user", req[c].prompt)
                    /\ after = before \o <<Message("assistant", req[c].response)>>
          /\ (req[c].pc = "askCall" /\ req'[c].pc = "idle" /\ sessions'[req[c].sess].live)
             => sessions'[req[c].sess].messages = sessions[req[c].sess].messages]_vars

\* C7: when the backend fails a prompt written to ask on f, the write is answered
\* Rwrite with the size of the request, the return leaves the message list and the
\* token counters unchanged, and a read of ask on f afterwards returns the text
\* "Error: " followed by the error.
C7_FailedAskReadable ==
    [][\A c \in Conns, f \in Fids :
          /\ (req[c].pc = "askCall" /\ req[c].fid = f /\ req'[c].pc = "idle")
             => /\ ev'.res = "Rwrite"
                /\ ev'.n = Len(req[c].data)
                /\ sessions'[req[c].sess].live
                   => /\ sessions'[req[c].sess].messages = sessions[req[c].sess].messages
                      /\ sessions'[req[c].sess].lastTokens = sessions[req[c].sess].lastTokens
                      /\ sessions'[req[c].sess].totalTokens = sessions[req[c].sess].totalTokens
          /\ (/\ acked'[c][f].kind = "err"
              /\ Answers(ev', c, f) /\ ev'.op = "Tread" /\ ev'.res = "Rread")
             => ev'.data = ReadAt(WithNewline(ErrorPrefix \o acked'[c][f].text),
                                  ev'.off, ClampCount(c, ev'.cnt)).data]_vars

\* C8: program order on one fid.  After an acknowledged prompt on the ask fid f, a
\* read of ask on f returns the newline-terminated response to that prompt, and
\* end-of-stream past its end.
C8_ReadAfterWrite ==
    \A c \in Conns, f \in Fids :
        (/\ acked[c][f].kind = "ok"
         /\ Answers(ev, c, f) /\ ev.op = "Tread" /\ ev.res = "Rread")
        => LET rd == ReadAt(WithNewline(acked[c][f].text), ev.off, ClampCount(c, ev.cnt))
           IN  ev.data = rd.data /\ ev.eof = rd.eof

\* C9: a write to new on fid f leaves f mapped to an empty session (no messages,
\* no last response, token counters zero), a read of ask on that session returns
\* end-of-stream at offset 0, and the session observed through any other fid is
\* unchanged.
C9_NewResetsOwnSession ==
    [][\A c \in Conns, f \in Fids :
          (Answers(ev', c, f) /\ ev'.op = "Twrite" /\ ev'.node = "new" /\ ev'.res = "Rwrite")
          => /\ sm'[f] # NoSess
             /\ sessions'[sm'[f]] = NewSession(sessions'[sm'[f]].ID)
             /\ ReadAt(AskContent(sessions'[sm'[f]]), 0, 1).eof
             /\ \A c2 \in Conns, f2 \in Fids :
                   (<<c2, f2>> # <<c, f>> /\ FidAware(fids[c2][f2]))
                   => Observed(f2)' = Observed(f2)]_vars

\* C10: a client that reads stream/chunk until end-of-stream has received the full
\* response text of the stream, whatever the interleaving with the producer.
C10_ChunksConcatToFull ==
    (/\ ev.op = "Tread" /\ ev.node = "chunk" /\ ev.res = "Rread" /\ ev.eof
     /\ ev.ch # 0
     /\ ~full[ev.ch].fails)
    => recvd[ev.ch] = full[ev.ch].text

\* the streams whose producer has not closed the queue yet
ActiveStreams == {i \in 1..Len(chans) : ~chans[i].closed}

\* C11: at most one stream is active per backend; a StartStream made while a stream
\* is in progress is answered with the error "stream already in progress", starts no
\* producer and leaves the transcript, the running producer and every queue as they
\* were, whichever connection makes the call.
C11_OneActiveStream ==
    /\ [](/\ Cardinality(ActiveStreams) <= 1
          /\ streaming <=> prod # NoProducer
          /\ streaming => ActiveStreams = {prod.ch})
    /\ [][(/\ ev'.op = "Twrite" /\ ev'.node = "sask" /\ ev'.res # "-"
           /\ TrimSpace(ev'.arg) # <<>>
           /\ streaming)
          => /\ ev'.res = "Rerror"
             /\ ev'.err = "stream already in progress"
             /\ UNCHANGED <<streaming, streamChan, chans, messages, lastTokens,
                            totalTokens, prod>>]_vars

\* a second StartStream was refused while the producer of the first had chunks queued
C11_Witness ==
    /\ ev.op = "Twrite" /\ ev.node = "sask"
    /\ ev.err = "stream already in progress"
    /\ streaming
    /\ prod.pc = "run"
    /\ chans[prod.ch].q # <<>>
    /\ Len(messages) = 1

\* the bytes the producer of stream ch has put into its queue so far
Enqueued(ch) ==
    IF prod.ch = ch
    THEN prod.fullResponse \o (IF prod.pc \in {"rollback", "cleanup"} /\ prod.fails
                               THEN ErrorChunk ELSE <<>>)
    ELSE full[ch].text \o (IF full[ch].fails THEN ErrorChunk ELSE <<>>)

\* the answer of ReadStreamChunk that connection c gets in this step
Returned(c) == ev'.conn = c /\ ev'.op = "Tread" /\ ev'.res = "Rread"

\* C12: ReadStreamChunk hands out the chunks of a stream in the order the producer
\* enqueued them, each once and with ok = true; it returns ok = false only when no
\* stream was ever started or the queue it took is closed and drained, and in both
\* cases it returns at once, on every call until StartStream installs a new queue.
C12_ChunksInOrderThenNotOk ==
    /\ [](\A ch \in 1..Len(chans) :
             /\ recvd[ch] \o Concat(chans[ch].q) = Enqueued(ch)
             /\ \A c \in Conns :
                   (req[c].pc = "chunkRecv" /\ req[c].ch = ch /\ chans[ch].closed)
                   => ENABLED ChunkReceive(c))
    /\ [](\A c \in Conns : (req[c].pc = "chunkChan" /\ streamChan = 0)
                             => ENABLED ChunkTakeChan(c))
    /\ [][\A c \in Conns :
            Returned(c) =>
              IF req[c].pc = "chunkChan"
              THEN streamChan = 0 /\ chans = <<>> /\ ev'.eof /\ ev'.data = <<>>
              ELSE LET q == chans[req[c].ch].q
                   IN  IF q # <<>>
                       THEN /\ ~ev'.eof
                            /\ ev'.data = Head(q)
                            /\ chans'[req[c].ch].q = Tail(q)
                       ELSE /\ chans[req[c].ch].closed
                            /\ ev'.eof /\ ev'.data = <<>>
                            /\ chans' = chans]_vars

\* a reader got ok = false from the closed, drained queue of a stream whose two
\* chunks had been handed out before
C12_Witness ==
    /\ ev.op = "Tread" /\ ev.res = "Rread" /\ ev.eof
    /\ ev.ch # 0
    /\ chans[ev.ch].closed
    /\ recvd[ev.ch] = <<"a", "b", "c">>

\* the step the producer takes when the source has ended with an error
ProducerFails == prod.pc = "run" /\ prod.src = <<>> /\ prod.fails /\ prod' # prod

\* C13: when the streaming source fails, the producer enqueues the synthesised error
\* chunk if and only if it had enqueued no content chunk of this stream before.
C13_ErrorChunkIffNoContent ==
    [][ProducerFails
       => ((chans'[prod.ch].q = Append(chans[prod.ch].q, ErrorChunk))
           <=> prod.fullResponse = <<>>)]_vars

RECURSIVE Resolve(_, _)
\* the nodes of the longest prefix of names that resolves from node
Resolve(node, names) ==
    IF names = <<>> \/ ~IsDir(node) THEN <<>>
    ELSE LET next == Lookup(node, Head(names))
         IN  IF next = NoNode THEN <<>> ELSE <<next>> \o Resolve(next, Tail(names))

\* the Twalk of connection c from fid f to newfid answered in this step, f being
\* bound and newfid free or equal to f
Walked(c, f, newfid) ==
    /\ ev'.conn = c /\ ev'.op = "Twalk" /\ ev'.fid = f /\ ev'.newfid = newfid
    /\ fids[c][f] # NoNode
    /\ (f = newfid \/ fids[c][newfid] = NoNode)

\* C14: Twalk answers with the Qids of the longest prefix of names that resolves from
\* the node of fid, binds newfid to the last node reached if and only if every name
\* resolved, and a zero-length walk binds newfid to the node of fid.
C14_WalkLongestPrefix ==
    [][\A c \in Conns, f \in Fids, newfid \in Fids :
          Walked(c, f, newfid) =>
            LET q == Resolve(fids[c][f], ev'.arg)
                last == IF q = <<>> THEN fids[c][f] ELSE q[Len(q)]
            IN  /\ ev'.res = "Rwalk"
                /\ ev'.qids = q
                /\ fids' = IF Len(q) = Len(ev'.arg)
                           THEN [fids EXCEPT ![c][newfid] = last]
                           ELSE fids]_vars

C16_VersionResetsFids ==
    [][(ev'.op = "Tversion" /\ ev'.res = "Rversion")
       => fids'[ev'.conn] = [f \in Fids |-> NoNode]]_vars

\* C17: Tattach(fid) binds fid to the root and answers with the root Qid; on a fid that
\* is bound it answers Rerror "fid already in use" and the table is unchanged.
C17_AttachBindsRoot ==
    [][\A c \in Conns, f \in Fids :
          (ev'.conn = c /\ ev'.op = "Tattach" /\ ev'.fid = f) =>
            IF fids[c][f] = NoNode
            THEN /\ ev'.res = "Rattach" /\ ev'.qids = <<"root">>
                 /\ fids' = [fids EXCEPT ![c][f] = "root"]
            ELSE /\ ev'.res = "Rerror" /\ ev'.err = "fid already in use"
                 /\ fids' = fids]_vars

\* an attach of fid 1 was refused while fid 1 is bound to stream/chunk
C17_Witness ==
    /\ ev.op = "Tattach" /\ ev.fid = 1 /\ ev.err = "fid already in use"
    /\ fids[ev.conn][1] = "chunk"
    /\ fids[ev.conn][0] = "root"

Dispatched(c) == ev'.conn = c /\ ev'.op \notin {"frame", "sent", "close"}

\* C19: a request answered with Rerror at dispatch leaves the fid table unchanged and
\* the connection open: the Rerror is written and the loop is back at ReadMessage.
C19_ErrorKeepsConnection ==
    /\ [][\A c \in Conns :
             (Dispatched(c) /\ ev'.res = "Rerror")
             => (fids' = fids /\ alive'[c] /\ wire'[c].pc = "handle")]_vars
    /\ [][\A c \in Conns :
             (ev'.conn = c /\ ev'.op = "sent" /\ ev.res = "Rerror")
             => /\ fids' = fids
                /\ alive'[c] /\ req'[c].pc = "idle" /\ wire'[c].pc = "read"
                /\ Len(wire'[c].tx) = Len(wire[c].tx) + 1]_vars

\* the Rerror "permission denied" of a write to stream/chunk has been written; both
\* fids are bound as before and the next frame can be read
C19_Witness ==
    /\ ev.conn = "A" /\ ev.op = "sent" /\ ev.res = "Rerror"
    /\ ev.err = "permission denied"
    /\ fids["A"][0] = "root" /\ fids["A"][1] = "chunk"
    /\ alive["A"] /\ wire["A"].pc = "read"
    /\ ENABLED ReadMessage("A", MinFrameSize, 1)

\* C20: after a frame with a size below 7 or above the maximum, or a Twrite whose
\* count exceeds its payload, the server writes an Rerror and closes the connection.
C20_FrameErrorCloses ==
    /\ [][\A c \in Conns :
             (wire[c].pc = "return" /\ alive[c])
             => (ev'.res = "Rerror" /\ Len(wire'[c].tx) = Len(wire[c].tx) + 1)]_vars
    /\ [][\A c \in Conns :
             (ev'.conn = c /\ ev'.op = "sent" /\ ev.err = "Twrite data truncated")
             => wire'[c].pc = "return"]_vars

\* C21: whatever msize was negotiated and whatever count a Tread asks for, the Rread
\* frame (11 bytes of size, type, tag and count, then the data) does not exceed the
\* msize of the connection.
C21_RreadFitsMsize ==
    [][\A c \in Conns :
          (ev'.conn = c /\ ev'.op = "Tread" /\ ev'.res = "Rread")
          => ReadOverhead + ev'.n <= msize[c]]_vars

\* the bytes a client obtains by reading node through fid number f from offset 0 until
\* end-of-stream
ReadToEnd(node, f) ==
    IF node = "ask" THEN AskContent(SessionOf(f)) ELSE ContextContent(SessionOf(f))

\* C22: while no write is in progress, the length Tstat reports for ask and context
\* on a fid equals the number of bytes read through that fid until end-of-stream.
C22_StatLengthIsReadLength ==
    \A c \in Conns, f \in Fids :
       (fids[c][f] \in {"ask", "context"} /\ \A d \in Conns : req[d].pc = "idle")
       => StatLength(fids[c][f]) = Len(ReadToEnd(fids[c][f], f))


(***************************************************************************)
(* Session asks next to a stream on the same backend                        *)
(***************************************************************************)
\* A has walked to ask (fid 0), B to stream/ask (fid 0) and stream/chunk (fid 1)
InitHistory ==
    /\ alive = [c \in Conns |-> TRUE]
    /\ fids = [c \in Conns |-> [f \in Fids |-> IF c = "A" THEN (IF f = 0 THEN "ask" ELSE NoNode)
                                               ELSE (IF f = 0 THEN "sask" ELSE "chunk")]]
    /\ msize = [c \in Conns |-> MaxMessageSize]
    /\ wire = [c \in Conns |-> NoWire]
    /\ req = [c \in Conns |-> IdleReq]
    /\ sm = [f \in Fids |-> NoSess]
    /\ sessions = [i \in SessIds |-> FreeSession]
    /\ streaming = FALSE
    /\ streamChan = 0
    /\ chans = <<>>
    /\ messages = <<>>
    /\ lastTokens = 0
    /\ totalTokens = 0
    /\ prod = NoProducer
    /\ InitBackend
    /\ ev = NoEvent
    /\ acked = [c \in Conns |-> [f \in Fids |-> NoAck]]
    /\ clunked = [c \in Conns |-> {}]
    /\ full = <<>>
    /\ recvd = <<>>

NextHistory ==
    \/ \E data \in Prompts \cup Blanks : HandleWrite("A", 0, data)
    \/ \E o \in Outcomes : AskReturn("A", o)
    \/ AskAddAssistant("A")
    \/ AskAddTokens("A")
    \/ AskSetLastResponse("A")
    \/ HandleWrite("B", 0, <<"q">>)
    \/ ReadStreamChunk("B")
    \/ ChunkTakeChan("B")
    \/ ChunkReceive("B")
    \/ ProducerSend
    \/ ProducerError
    \/ ProducerRollback
    \/ ProducerCommit
    \/ ProducerCleanup

SpecHistory == InitHistory /\ [][NextHistory]_vars

(***************************************************************************)
(* Asks on sessions of different fid numbers                                *)
(***************************************************************************)
\* A has walked to ask (fid 0) and context (fid 1), B to new (fid 0) and ask (fid 1)
InitTwoSessions ==
    /\ alive = [c \in Conns |-> TRUE]
    /\ fids = [c \in Conns |-> [f \in Fids |-> IF c = "A" THEN (IF f = 0 THEN "ask" ELSE "context")
                                               ELSE (IF f = 0 THEN "new" ELSE "ask")]]
    /\ msize = [c \in Conns |-> MaxMessageSize]
    /\ wire = [c \in Conns |-> NoWire]
    /\ req = [c \in Conns |-> IdleReq]
    /\ sm = [f \in Fids |-> NoSess]
    /\ sessions = [i \in SessIds |-> FreeSession]
    /\ streaming = FALSE
    /\ streamChan = 0
    /\ chans = <<>>
    /\ messages = <<>>
    /\ lastTokens = 0
    /\ totalTokens = 0
    /\ prod = NoProducer
    /\ InitBackend
    /\ ev = NoEvent
    /\ acked = [c \in Conns |-> [f \in Fids |-> NoAck]]
    /\ clunked = [c \in Conns |-> {}]
    /\ full = <<>>
    /\ recvd = <<>>

NextTwoSessions ==
    \E c \in Conns :
        \/ \E f \in Fids : HandleRead(c, f, 0, 64)
        \/ \E f \in Fids, data \in {<<"q">>} \cup Blanks : HandleWrite(c, f, data)
        \/ \E o \in Outcomes : AskReturn(c, o)
        \/ AskAddAssistant(c)
        \/ AskAddTokens(c)
        \/ AskSetLastResponse(c)

SpecTwoSessions == InitTwoSessions /\ [][NextTwoSessions]_vars

(***************************************************************************)
(* The files over one shared backend (llm.Client): ask with auto-          *)
(* compaction, context, new and compact.  Client.mu is released around      *)
(* every backend call, so Ask and Compact are two steps each                *)
(***************************************************************************)
\* the model stops feeding a transcript that holds more than this many messages
MaxTranscript == 6

\* CompactThreshold = 0.80, as a percentage
CompactThresholdPct == 80
\* "threshold := int(float64(limit) * CompactThreshold)"
Threshold(limit) == (limit * CompactThresholdPct) \div 100

\* "Previous conversation summary: "
SummaryPrefix ==
    <<"P", "r", "e", "v", "i", "o", "u", "s", " ", "c", "o", "n", "v", "e", "r", "s", "a",
      "t", "i", "o", "n", " ", "s", "u", "m", "m", "a", "r", "y", ":", " ">>

\* estimateTokens: "(len(s) + 3) / 4", the only token measure of a text in the code
estimateTokens(s) == (Len(s) + 3) \div 4

NonSystem(msgs) == SelectSeq(msgs, LAMBDA m : m.Role # "system")

NeverAutoCompact(tokens, limit) == FALSE

\* AskFile.Write: "if tokens > threshold"
AutoCompact(tokens, limit) == tokens > Threshold(limit)

\* Compact: "if len(c.messages) < 4 { return nil }"
CompactNoop(msgs) == Len(msgs) < 4

\* the write to a file of the shared tree that connection c is in
SharedRequest(c, node, p) ==
    [NoEvent EXCEPT !.conn = c, !.op = "Twrite", !.node = node, !.arg = p]

\* a step inside the Write of connection c
SharedStep(c, op) == [NoEvent EXCEPT !.conn = c, !.op = op, !.res = "-"]

\* the Compact of c was called by AskFile.Write (by CompactFile.Write otherwise)
FromAsk(c) == req[c].prompt # <<>>

\* AskFile.Write up to its first call into the backend
SharedAskWrite(c, p) ==
    /\ req[c].pc = "idle"
    /\ LET prompt == TrimSpace(p)
           r == SharedRequest(c, "ask", p)
       IN IF prompt = <<>>
          THEN /\ ev' = Rwrite(r, Len(p))
               /\ UNCHANGED req
          ELSE /\ Len(messages) + 2 <= MaxTranscript
               /\ req' = [req EXCEPT ![c] =
                            [IdleReq EXCEPT !.prompt = prompt, !.data = p,
                               !.tokens0 = totalTokens,
                               !.pc = IF AutoCompact(totalTokens, ContextLimit)
                                      THEN "compact" ELSE "dispatch"]]
               /\ ev' = [r EXCEPT !.res = "-"]
    /\ UNCHANGED <<alive, fids, msize, wire, sessVars, streamVars, backendVars, histVars>>

\* CompactFile.Write up to its call of Compact
CompactWrite(c, p) ==
    /\ req[c].pc = "idle"
    /\ LET r == SharedRequest(c, "compact", p)
       IN IF TrimSpace(p) = <<>>
          THEN /\ ev' = Rwrite(r, Len(p))
               /\ UNCHANGED req
          ELSE /\ req' = [req EXCEPT ![c] = [IdleReq EXCEPT !.pc = "compact", !.data = p]]
               /\ ev' = [r EXCEPT !.res = "-"]
    /\ UNCHANGED <<alive, fids, msize, wire, sessVars, streamVars, backendVars, histVars>>

\* what follows the return of Compact in its caller: AskFile.Write goes on to Ask
\* whatever Compact returned; CompactFile.Write stores the result and answers
AfterCompact(c, result, op) ==
    IF FromAsk(c)
    THEN /\ req' = [req EXCEPT ![c].pc = "dispatch"]
         /\ ev' = [SharedStep(c, op) EXCEPT !.err = result.kind]
         /\ UNCHANGED <<lastResponse, lastResult, temperature>>
    ELSE /\ req' = [req EXCEPT ![c] = IdleReq]
         /\ lastResult' = result
         /\ ev' = [Rwrite(SharedRequest(c, "compact", req[c].data), Len(req[c].data))
                     EXCEPT !.err = result.kind]
         /\ UNCHANGED <<lastResponse, temperature>>

\* Client.Compact up to its backend call
Compact(c) ==
    /\ req[c].pc = "compact"
    /\ IF CompactNoop(messages)
       THEN AfterCompact(c, [kind |-> "ok", tokens |-> totalTokens], "Compact.noop")
       ELSE /\ req' = [req EXCEPT ![c].pc = "summarize", ![c].history = messages]
            /\ ev' = SharedStep(c, "Compact.call")
            /\ UNCHANGED backendVars
    /\ UNCHANGED <<alive, fids, msize, wire, sessVars, streamVars, histVars>>

\* the summarisation call returns an error: "compaction failed"
CompactFailed(c) ==
    /\ req[c].pc = "summarize"
    /\ AfterCompact(c, [kind |-> "error", tokens |-> 0], "Compact.failed")
    /\ UNCHANGED <<alive, fids, msize, wire, sessVars, streamVars, histVars>>

\* the summarisation call returns the summary and the usage of that call:
\* "c.messages = []Message{{Role: "system", ...}}; c.totalTokens = input + output"
CompactReturn(c, summary, usage) ==
    /\ req[c].pc = "summarize"
    /\ messages' = <<Message("system", SummaryPrefix \o summary)>>
    /\ totalTokens' = usage
    /\ AfterCompact(c, [kind |-> "ok", tokens |-> usage], "Compact.done")
    /\ UNCHANGED <<alive, fids, msize, wire, sessVars, streaming, streamChan, chans,
                   lastTokens, prod, histVars>>

\* Client.Ask up to its backend call: the user message is appended
ClientAsk(c) ==
    /\ req[c].pc = "dispatch"
    /\ messages' = Append(messages, Message("user", req[c].prompt))
    /\ req' = [req EXCEPT ![c].pc = "asking"]
    /\ ev' = SharedStep(c, "Ask.call")
    /\ UNCHANGED <<alive, fids, msize, wire, sessVars, streaming, streamChan, chans,
                   lastTokens, totalTokens, prod, backendVars, histVars>>

\* the backend call of Client.Ask returns, and AskFile.Write stores the response
ClientAskReturn(c, o) ==
    /\ req[c].pc = "asking"
    /\ IF o.ok
       THEN /\ messages' = Append(messages, Message("assistant", o.text))
            /\ lastTokens' = o.tokens
            /\ totalTokens' = totalTokens + o.tokens
            /\ lastResponse' = o.text
       ELSE /\ messages' = IF Len(messages) > 0
                           THEN SubSeq(messages, 1, Len(messages) - 1) ELSE messages
            /\ lastResponse' = ErrorPrefix \o o.text
            /\ UNCHANGED <<lastTokens, totalTokens>>
    /\ req' = [req EXCEPT ![c] = IdleReq]
    /\ ev' = Rwrite(SharedRequest(c, "ask", req[c].data), Len(req[c].data))
    /\ UNCHANGED <<alive, fids, msize, wire, sessVars, streaming, streamChan, chans, prod,
                   temperature, lastResult, histVars>>

\* ContextFile.Write over the shared backend: Client.AddSystemMessage
SharedContextWrite(c, p) ==
    /\ req[c].pc = "idle"
    /\ LET msg == TrimSpace(p)
       IN IF msg # <<>>
          THEN /\ Len(messages) < MaxTranscript
               /\ messages' = <<Message("system", msg)>> \o messages
          ELSE UNCHANGED messages
    /\ ev' = Rwrite(SharedRequest(c, "context", p), Len(p))
    /\ UNCHANGED <<alive, fids, msize, wire, req, sessVars, streaming, streamChan, chans,
                   lastTokens, totalTokens, prod, backendVars, histVars>>

\* NewFile.Write over the shared backend: Client.Reset
SharedNewWrite(c, p) ==
    /\ req[c].pc = "idle"
    /\ messages' = <<>>
    /\ lastTokens' = 0
    /\ totalTokens' = 0
    /\ ev' = Rwrite(SharedRequest(c, "new", p), Len(p))
    /\ UNCHANGED <<alive, fids, msize, wire, req, sessVars, streaming, streamChan, chans,
                   prod, backendVars, histVars>>

\* what the backend returns to Client.Ask: the text with the usage of the call, or an error
AskOutcomes == {[ok |-> TRUE, text |-> <<"r">>, tokens |-> 90000],
                [ok |-> FALSE, text |-> <<"x">>, tokens |-> 0]}
\* what the backend returns to the summarisation call
Summaries == {<<"s">>}
CompactUsages == {8, 40}

\* the clients of the shared tree: A asks and adds context, B compacts and starts anew
AskWrites(c) == IF c = "A" THEN {<<"q">>} \cup Blanks ELSE {}
ContextWrites(c) == IF c = "A" THEN {<<"c">>} \cup Blanks ELSE {}
CompactWrites(c) == IF c = "B" THEN {<<"q">>} \cup Blanks ELSE {}
NewWrites(c) == IF c = "B" THEN {<<"n">>} ELSE {}

NextCompact ==
    \E c \in Conns :
        \/ \E p \in AskWrites(c) : SharedAskWrite(c, p)
        \/ \E p \in CompactWrites(c) : CompactWrite(c, p)
        \/ Compact(c)
        \/ CompactFailed(c)
        \/ \E summary \in Summaries, usage \in CompactUsages : CompactReturn(c, summary, usage)
        \/ ClientAsk(c)
        \/ \E o \in AskOutcomes : ClientAskReturn(c, o)
        \/ \E p \in ContextWrites(c) : SharedContextWrite(c, p)
        \/ \E p \in NewWrites(c) : SharedNewWrite(c, p)

SpecCompact == Init /\ [][NextCompact]_vars


\* the Compact called by connection c returns in this step after a summarisation call
Compacted(c) ==
    /\ req[c].pc = "summarize"
    /\ req'[c].pc # "summarize"
    /\ ev'.conn = c
    /\ ev'.err = "ok"

\* C23: a successful compact of a transcript that held at least four non-system
\* messages leaves exactly one message, the system message "Previous conversation
\* summary: <reply>", and sets totalTokens to the token size of that message.
C23_CompactLeavesSummary ==
    [][\A c \in Conns :
          (Compacted(c) /\ Len(NonSystem(req[c].history)) >= 4)
          => /\ \E reply \in Summaries :
                   messages' = <<Message("system", SummaryPrefix \o reply)>>
             /\ totalTokens' = estimateTokens(messages'[1].Content)]_vars

\* connection c is in the step of Compact that decides whether there is anything to compact
CompactDecides(c) == req[c].pc = "compact" /\ req'[c].pc # "compact"

\* C24: compact is a no-op (no backend call, transcript and counters unchanged, no
\* error) exactly when the transcript holds fewer than four non-system messages.
C24_NoopBelowFourNonSystem ==
    [][\A c \in Conns :
          CompactDecides(c)
          => /\ (req'[c].pc # "summarize") <=> (Len(NonSystem(messages)) < 4)
             /\ (req'[c].pc # "summarize")
                => /\ UNCHANGED <<messages, lastTokens, totalTokens>>
                   /\ ev'.err # "error"]_vars

\* C25: a non-empty write to ask over the shared backend calls Compact before the
\* backend ask if and only if totalTokens > 0.80 x contextLimit at that moment, and
\* the ask is dispatched after Compact whether it did nothing, succeeded or failed.
C25_AutoCompactThenAsk ==
    [][\A c \in Conns :
          /\ (ev'.conn = c /\ ev'.op = "Twrite" /\ ev'.node = "ask" /\ req[c].pc = "idle"
                /\ TrimSpace(ev'.arg) # <<>>)
             => /\ req'[c].pc \in {"compact", "dispatch"}
                /\ (req'[c].pc = "compact") <=> (totalTokens * 100 > ContextLimit * 80)
          /\ (FromAsk(c) /\ req[c].pc \in {"compact", "summarize"})
             => req'[c].pc \in {"compact", "summarize", "dispatch"}
          /\ (req[c].pc = "dispatch" /\ req'[c].pc # "dispatch")
             => /\ req'[c].pc = "asking"
                /\ messages' = Append(messages, Message("user", req[c].prompt))]_vars

\* the auto-compaction of a write to ask has failed and the ask is about to be made
C25_Witness ==
    /\ ev.conn = "A"
    /\ ev.op = "Compact.failed"
    /\ req["A"].pc = "dispatch"
    /\ req["A"].tokens0 * 100 > ContextLimit * 80


\* the steps of an ask made through the session manager by connection c
SessionAskStep(c) ==
    \/ req[c].pc \in {"askCall", "askAssistant", "askTokens", "askLast"}
    \/ req'[c].pc \in {"askCall", "askAssistant", "askTokens", "askLast"}

\* C26: askWithHistory, and so every ask made through the session manager, leaves the
\* backend's own state unchanged: its message list, its last and total token
\* counters, its settings and its stream state.
C26_AskWithHistoryKeepsBackend ==
    [][\A c \in Conns :
          (SessionAskStep(c) /\ req'[c] # req[c])
          => UNCHANGED <<messages, lastTokens, totalTokens, temperature, streaming,
                         streamChan, chans, prod>>]_vars

\* a session ask has been answered while the backend held a transcript and a stream
C26_Witness ==
    /\ acked["A"][0].kind = "ok"
    /\ ev.conn = "A"
    /\ ev.res = "Rwrite"
    /\ messages # <<>>
    /\ streaming


\* no connection is inside an ask on the session with identity i
Settled(i) == \A c \in Conns : req[c].pc = "idle" \/ req[c].sess # i

\* C27: the cumulative token count of a session equals the sum of the token counts
\* returned by the successful asks on it since its creation or last reset (checked
\* when no ask on the session is under way); failed asks, reads and writes to
\* context add nothing.
C27_TotalIsSumOfAsks ==
    \A i \in SessIds :
        (sessions[i].live /\ Settled(i)) => sessions[i].totalTokens = sessions[i].returned


\* the backend call of the ask of connection c on fid g is in flight, and connection
\* d, between requests, holds fid f of another number on a session file
CallInFlight(c, d, f) ==
    /\ c # d
    /\ req[c].pc = "askCall"
    /\ Serving(d)
    /\ f # req[c].fid
    /\ fids[d][f] \in {"ask", "context", "new"}

Digit(ch) ==
    CASE ch = "0" -> 0 [] ch = "1" -> 1 [] ch = "2" -> 2 [] ch = "3" -> 3 [] ch = "4" -> 4
      [] ch = "5" -> 5 [] ch = "6" -> 6 [] ch = "7" -> 7 [] ch = "8" -> 8 [] ch = "9" -> 9
      [] OTHER -> -1

RECURSIVE Decimal(_)
Decimal(q) == IF q = <<>> THEN 0 ELSE Decimal(SubSeq(q, 1, Len(q) - 1)) * 10 + Digit(q[Len(q)])

Digits(q) == \A i \in 1..Len(q) : Digit(q[i]) >= 0

\* strconv.ParseFloat(s, 64) on the texts the model writes: "NaN", "Inf" with an
\* optional sign, or sign, digits, point, digits with at most two decimals
ParseFloat(s) ==
    LET signed == s # <<>> /\ s[1] \in {"-", "+"}
        neg == s # <<>> /\ s[1] = "-"
        mag == IF signed THEN Tail(s) ELSE s
        dots == {i \in 1..Len(mag) : mag[i] = "."}
        dot == IF dots = {} THEN Len(mag) + 1 ELSE CHOOSE i \in dots : \A j \in dots : i <= j
        int == SubSeq(mag, 1, dot - 1)
        frac == SubSeq(mag, dot + 1, Len(mag))
        hundredths == Decimal(int) * 100
                      + (IF Len(frac) = 1 THEN Decimal(frac) * 10 ELSE Decimal(frac))
    IN
    IF ~signed /\ mag = <<"N", "a", "N">> THEN [ok |-> TRUE, val |-> NaN]
    ELSE IF mag = <<"I", "n", "f">> THEN [ok |-> TRUE, val |-> IF neg THEN NegInf ELSE PosInf]
    ELSE IF Digits(int) /\ Digits(frac) /\ Len(int) + Len(frac) > 0 /\ Len(frac) <= 2
    THEN [ok |-> TRUE, val |-> Num(IF neg THEN 0 - hundredths ELSE hundredths)]
    ELSE [ok |-> FALSE, val |-> Num(0)]

\* SetTemperature: "if temp < 0.0 || temp > 2.0"
Rejected(temp) == FloatLt(temp, Num(0)) \/ FloatLt(Num(200), temp)

\* Client.SetTemperature called by connection c
SetTemperature(c, temp) ==
    /\ Serving(c)
    /\ IF Rejected(temp)
       THEN /\ ev' = [NoEvent EXCEPT !.conn = c, !.op = "SetTemperature", !.data = temp,
                                     !.err = "temperature must be between 0.0 and 2.0"]
            /\ UNCHANGED temperature
       ELSE /\ ev' = [NoEvent EXCEPT !.conn = c, !.op = "SetTemperature", !.data = temp]
            /\ temperature' = temp
    /\ UNCHANGED <<serverVars, sessVars, streamVars, lastResponse, lastResult, histVars>>

\* TemperatureFile.Write, answered by handleWrite
TemperatureWrite(c, p) ==
    LET r == SharedRequest(c, "temperature", p)
        parsed == ParseFloat(TrimSpace(p))
    IN
    /\ Serving(c)
    /\ IF ~parsed.ok
       THEN /\ ev' = Rerror(r, "invalid temperature")
            /\ UNCHANGED temperature
       ELSE IF Rejected(parsed.val)
       THEN /\ ev' = [Rerror(r, "temperature must be between 0.0 and 2.0")
                        EXCEPT !.data = parsed.val]
            /\ UNCHANGED temperature
       ELSE /\ ev' = [Rwrite(r, Len(p)) EXCEPT !.data = parsed.val]
            /\ temperature' = parsed.val
    /\ UNCHANGED <<serverVars, sessVars, streamVars, lastResponse, lastResult, histVars>>

Temperatures == {Num(-10), Num(0), Num(70), Num(150), Num(200), Num(210), NaN, PosInf, NegInf}
TemperatureTexts == {<<"1", ".", "5">>, <<"0">>, <<"2", ".", "0", "0", "\n">>, <<"-", "0", ".", "1">>,
                     <<"2", ".", "1">>, <<"2", ".", "0", "1">>, <<".", "5">>, <<"a">>, <<>>,
                     <<"N", "a", "N">>, <<"I", "n", "f">>, <<"-", "I", "n", "f">>}

NextTemperature ==
    \E c \in Conns :
        \/ \E temp \in Temperatures : SetTemperature(c, temp)
        \/ \E p \in TemperatureTexts : TemperatureWrite(c, p)

SpecTemperature == Init /\ [][NextTemperature]_vars

\* temp lies in [0.0, 2.0]
InRange(temp) == temp.kind = "num" /\ temp.v >= 0 /\ temp.v <= 200

\* C29: setTemperature(t) stores t and succeeds for every t in [0.0, 2.0]; for every
\* t outside that range it returns an error and leaves the stored temperature
\* unchanged; a rejected write to the temperature file changes nothing.
C29_TemperatureRange ==
    [][/\ ev'.op = "SetTemperature"
          => IF InRange(ev'.data)
             THEN ev'.err = "" /\ temperature' = ev'.data
             ELSE ev'.err # "" /\ temperature' = temperature
       /\ (ev'.op = "Twrite" /\ ev'.node = "temperature")
          => /\ ev'.res = "Rerror" => temperature' = temperature
             /\ (ParseFloat(TrimSpace(ev'.arg)).ok /\ ~InRange(ParseFloat(TrimSpace(ev'.arg)).val))
                => ev'.res = "Rerror"]_vars


(***************************************************************************)
(* The codec: Encode and Decode of the T-messages, Stat, Qid and strings.   *)
(* A buffer is a sequence of bytes, a string the sequence of its bytes; an   *)
(* integer field of the model holds a value below 2^31                      *)
(***************************************************************************)
\* binary.LittleEndian.PutUint16 / PutUint32 / PutUint64: n bytes, low byte first
RECURSIVE LE(_, _)
LE(v, n) == IF n = 0 THEN <<>> ELSE <<v % 256>> \o LE(v \div 256, n - 1)

\* binary.LittleEndian.Uint16 / Uint32 / Uint64
RECURSIVE Uint(_)
Uint(b) == IF b = <<>> THEN 0 ELSE b[1] + 256 * Uint(Tail(b))

\* the Go slices buf[a:b] and buf[a:]
Slice(buf, a, b) == SubSeq(buf, a + 1, b)
From(buf, a) == SubSeq(buf, a + 1, Len(buf))

\* EncodeString: "PutUint16(buf[0:2], uint16(len(s))); copy(buf[2:], s)"
EncodeString(str) == LE(Len(str) % Limb, 2) \o str

\* DecodeString: "2+size" is a uint16 sum
StringEnd(size) == (2 + size) % Limb

\* DecodeString: (string, bytes consumed); a slice buf[2:end] with end < 2 panics
DecodeString(buf) ==
    IF Len(buf) < 2 THEN [s |-> <<>>, n |-> 0, err |-> ""]
    ELSE LET size == Uint(Slice(buf, 0, 2))
             end == StringEnd(size)
         IN IF Len(buf) < end THEN [s |-> <<>>, n |-> 0, err |-> ""]
            ELSE IF end < 2 \/ end > Len(buf)
            THEN [s |-> <<>>, n |-> 0, err |-> "panic: slice bounds out of range"]
            ELSE [s |-> Slice(buf, 2, end), n |-> end, err |-> ""]

\* Qid.Encode
EncodeQid(q) == <<q.Type>> \o LE(q.Version, 4) \o LE(q.Path, 8)

\* DecodeQid
DecodeQid(buf) ==
    IF Len(buf) < 13 THEN [q |-> [Type |-> 0, Version |-> 0, Path |-> 0], n |-> 0]
    ELSE [q |-> [Type |-> buf[1], Version |-> Uint(Slice(buf, 1, 5)),
                 Path |-> Uint(Slice(buf, 5, 13))], n |-> 13]

\* Stat.Encode without the size field
StatBody(st) ==
    LE(st.Type, 2) \o LE(st.Dev, 4) \o EncodeQid(st.Qid) \o LE(st.Mode, 4) \o LE(st.Atime, 4)
    \o LE(st.Mtime, 4) \o LE(st.Length, 8) \o EncodeString(st.Name) \o EncodeString(st.Uid)
    \o EncodeString(st.Gid) \o EncodeString(st.Muid)

\* Stat.Encode: "s.Size = uint16(n - 2)"
EncodeStat(st) == LE(Len(StatBody(st)) % Limb, 2) \o StatBody(st)

\* DecodeStat
DecodeStat(buf) ==
    LET size == Uint(Slice(buf, 0, 2))
        name == DecodeString(From(buf, 41))
        uid == DecodeString(From(buf, 41 + name.n))
        gid == DecodeString(From(buf, 41 + name.n + uid.n))
        muid == DecodeString(From(buf, 41 + name.n + uid.n + gid.n))
    IN [val |-> [kind |-> "Stat", Size |-> size, Type |-> Uint(Slice(buf, 2, 4)),
                 Dev |-> Uint(Slice(buf, 4, 8)), Qid |-> DecodeQid(From(buf, 8)).q,
                 Mode |-> Uint(Slice(buf, 21, 25)), Atime |-> Uint(Slice(buf, 25, 29)),
                 Mtime |-> Uint(Slice(buf, 29, 33)), Length |-> Uint(Slice(buf, 33, 41)),
                 Name |-> name.s, Uid |-> uid.s, Gid |-> gid.s, Muid |-> muid.s],
        n |-> size + 2, err |-> ""]

\* TwalkMsg.Encode: the loop over m.Names
RECURSIVE EncodeNames(_)
EncodeNames(names) ==
    IF names = <<>> THEN <<>> ELSE EncodeString(Head(names)) \o EncodeNames(Tail(names))

\* DecodeTwalk: the loop that fills m.Names
RECURSIVE DecodeNames(_, _)
DecodeNames(buf, k) ==
    IF k = 0 THEN <<>>
    ELSE LET d == DecodeString(buf) IN <<d.s>> \o DecodeNames(From(buf, d.n), k - 1)

\* Encode of a T-message, a Stat, a Qid or a string: the bytes buf[0:n] it writes
Encode(v) ==
    CASE v.kind = "Tversion" -> LE(v.Msize, 4) \o EncodeString(v.Version)
      [] v.kind = "Tattach" -> LE(v.Fid, 4) \o LE(v.Afid, 4) \o EncodeString(v.Uname)
                               \o EncodeString(v.Aname)
      [] v.kind = "Twalk" -> LE(v.Fid, 4) \o LE(v.Newfid, 4) \o LE(Len(v.Names) % Limb, 2)
                             \o EncodeNames(v.Names)
      [] v.kind = "Topen" -> LE(v.Fid, 4) \o <<v.Mode>>
      [] v.kind = "Tread" -> LE(v.Fid, 4) \o LE(v.Offset, 8) \o LE(v.Count, 4)
      [] v.kind = "Twrite" -> LE(v.Fid, 4) \o LE(v.Offset, 8) \o LE(Len(v.Data), 4) \o v.Data
      [] v.kind \in {"Tclunk", "Tstat"} -> LE(v.Fid, 4)
      [] v.kind = "Tflush" -> LE(v.Oldtag, 2)
      [] v.kind = "Stat" -> EncodeStat(v)
      [] v.kind = "Qid" -> EncodeQid(v)
      [] OTHER -> EncodeString(v.s)

\* DecodeTwrite: "16+count", a uint32 sum, for the count in buf[12:16]; the sum is
\* kept in two 16-bit limbs.  A payload is shorter than 2^16 bytes, so
\* "len(buf) < int(16+count)" holds when the high limb is not 0
DataEnd(buf) ==
    LET lo == Uint(Slice(buf, 12, 14)) + 16
        hi == Uint(Slice(buf, 14, 16)) + lo \div Limb
    IN  [hi |-> hi % Limb, lo |-> lo % Limb]

Short(kind) == [val |-> [kind |-> kind], n |-> 0, err |-> "too short"]

\* the decoder of each kind: the value, the bytes consumed where the decoder
\* reports them (Stat, Qid, string), and the error or panic
Decode(kind, buf) ==
    CASE kind = "Tversion" ->
           IF Len(buf) < 6 THEN Short(kind)
           ELSE LET d == DecodeString(From(buf, 4))
                IN [val |-> [kind |-> kind, Msize |-> Uint(Slice(buf, 0, 4)), Version |-> d.s],
                    n |-> 0, err |-> d.err]
      [] kind = "Tattach" ->
           IF Len(buf) < 12 THEN Short(kind)
           ELSE LET u == DecodeString(From(buf, 8))
                    a == DecodeString(From(buf, 8 + u.n))
                IN [val |-> [kind |-> kind, Fid |-> Uint(Slice(buf, 0, 4)),
                             Afid |-> Uint(Slice(buf, 4, 8)), Uname |-> u.s, Aname |-> a.s],
                    n |-> 0, err |-> IF u.err # "" THEN u.err ELSE a.err]
      [] kind = "Twalk" ->
           IF Len(buf) < 10 THEN Short(kind)
           ELSE [val |-> [kind |-> kind, Fid |-> Uint(Slice(buf, 0, 4)),
                          Newfid |-> Uint(Slice(buf, 4, 8)),
                          Names |-> DecodeNames(From(buf, 10), Uint(Slice(buf, 8, 10)))],
                 n |-> 0, err |-> ""]
      [] kind = "Topen" ->
           IF Len(buf) < 5 THEN Short(kind)
           ELSE [val |-> [kind |-> kind, Fid |-> Uint(Slice(buf, 0, 4)), Mode |-> buf[5]],
                 n |-> 0, err |-> ""]
      [] kind = "Tread" ->
           IF Len(buf) < 16 THEN Short(kind)
           ELSE [val |-> [kind |-> kind, Fid |-> Uint(Slice(buf, 0, 4)),
                          Offset |-> Uint(Slice(buf, 4, 12)), Count |-> Uint(Slice(buf, 12, 16))],
                 n |-> 0, err |-> ""]
      [] kind = "Twrite" ->
           IF Len(buf) < 16 THEN Short(kind)
           ELSE LET end == DataEnd(buf)
                IN IF end.hi > 0 \/ Len(buf) < end.lo
                   THEN [val |-> [kind |-> kind], n |-> 0, err |-> "Twrite data truncated"]
                   ELSE IF end.lo < 16
                   THEN [val |-> [kind |-> kind], n |-> 0,
                         err |-> "panic: slice bounds out of range"]
                   ELSE [val |-> [kind |-> kind, Fid |-> Uint(Slice(buf, 0, 4)),
                                  Offset |-> Uint(Slice(buf, 4, 12)),
                                  Data |-> Slice(buf, 16, end.lo)],
                         n |-> 0, err |-> ""]
      [] kind \in {"Tclunk", "Tstat"} ->
           IF Len(buf) < 4 THEN Short(kind)
           ELSE [val |-> [kind |-> kind, Fid |-> Uint(Slice(buf, 0, 4))], n |-> 0, err |-> ""]
      [] kind = "Tflush" ->
           IF Len(buf) < 2 THEN Short(kind)
           ELSE [val |-> [kind |-> kind, Oldtag |-> Uint(Slice(buf, 0, 2))], n |-> 0, err |-> ""]
      [] kind = "Stat" -> DecodeStat(buf)
      [] kind = "Qid" ->
           LET d == DecodeQid(buf)
           IN [val |-> [kind |-> kind, Type |-> d.q.Type, Version |-> d.q.Version,
                        Path |-> d.q.Path], n |-> d.n, err |-> ""]
      [] OTHER ->
           LET d == DecodeString(buf)
           IN [val |-> [kind |-> kind, s |-> d.s], n |-> d.n, err |-> d.err]

\* the values the codec is applied to
Strings == {<<>>, <<97>>, <<97, 115, 107>>, <<255, 0>>}
LongStrings == {[i \in 1..len |-> 97] : len \in {Limb - 3, Limb - 2, Limb - 1}}
Uint32s == {0, 1, 258, 16777216}
Qids == {[kind |-> "Qid", Type |-> t, Version |-> v, Path |-> q] :
            t \in {0, 128}, v \in {0, 258}, q \in {0, 16777217}}
CodecInputs ==
    {[kind |-> "string", s |-> str] : str \in Strings \cup LongStrings}
    \cup {[kind |-> "Tversion", Msize |-> m, Version |-> str] :
             m \in {0, MaxMessageSize}, str \in {<<>>, <<57, 80>>}}
    \cup {[kind |-> "Tattach", Fid |-> f, Afid |-> 16777216, Uname |-> u, Aname |-> <<>>] :
             f \in {0, 258}, u \in {<<>>, <<97>>}}
    \cup {[kind |-> "Twalk", Fid |-> 0, Newfid |-> f, Names |-> names] :
             f \in {1, 258}, names \in {<<>>, << <<97>> >>, << <<97, 115, 107>>, <<>>, <<97>> >>}}
    \cup {[kind |-> "Topen", Fid |-> f, Mode |-> md] : f \in {0, 258}, md \in {0, 1, 255}}
    \cup {[kind |-> "Tread", Fid |-> 1, Offset |-> off, Count |-> cnt] :
             off \in Uint32s, cnt \in {0, MaxMessageSize}}
    \cup {[kind |-> "Twrite", Fid |-> 1, Offset |-> off, Data |-> str] :
             off \in {0, 258}, str \in Strings}
    \cup {[kind |-> k, Fid |-> f] : k \in {"Tclunk", "Tstat"}, f \in Uint32s}
    \cup {[kind |-> "Tflush", Oldtag |-> t] : t \in {0, 258, Limb - 1}}
    \cup Qids
    \cup {[kind |-> "Stat", Size |-> 0, Type |-> 0, Dev |-> 0,
           Qid |-> [Type |-> 128, Version |-> 0, Path |-> 1], Mode |-> md, Atime |-> 0,
           Mtime |-> 258, Length |-> len, Name |-> nm, Uid |-> <<97>>, Gid |-> <<97>>,
           Muid |-> <<>>] : md \in {0, 438}, len \in {0, 258}, nm \in {<<>>, <<97, 115, 107>>}}

\* the inputs in a fixed order: the state holds the number of the value, ev.cnt
RECURSIVE Enumerate(_)
Enumerate(S) ==
    IF S = {} THEN <<>>
    ELSE LET x == CHOOSE y \in S : TRUE IN <<x>> \o Enumerate(S \ {x})

\* Twrite payloads as a client can send them: fid 1, offset 0, a declared count of
\* 0, 1, 2, 3, 2^16, 2^31, 2^32 - 16, 2^32 - 15 or 2^32 - 1, and up to three bytes
DeclaredCounts == {<<0, 0, 0, 0>>, <<1, 0, 0, 0>>, <<2, 0, 0, 0>>, <<3, 0, 0, 0>>,
                   <<0, 0, 1, 0>>, <<0, 0, 0, 128>>, <<240, 255, 255, 255>>,
                   <<241, 255, 255, 255>>, <<255, 255, 255, 255>>}
TwritePayloads ==
    {LE(1, 4) \o LE(0, 8) \o cnt \o data :
        cnt \in DeclaredCounts,
        data \in {<<>>, <<97>>, <<0>>, <<97, 98>>, <<97, 98, 99>>, <<255, 0, 255>>}}
PayloadTable == Enumerate(TwritePayloads)
Payload(i) == PayloadTable[i]

InputTable == Enumerate(CodecInputs)
Input(i) == InputTable[i]

\* a value is handed to the codec
InitCodec ==
    /\ alive = [c \in Conns |-> TRUE]
    /\ fids = [c \in Conns |-> [f \in Fids |-> NoNode]]
    /\ msize = [c \in Conns |-> MaxMessageSize]
    /\ wire = [c \in Conns |-> NoWire]
    /\ req = [c \in Conns |-> IdleReq]
    /\ sm = [f \in Fids |-> NoSess]
    /\ sessions = [i \in SessIds |-> FreeSession]
    /\ streaming = FALSE
    /\ streamChan = 0
    /\ chans = <<>>
    /\ messages = <<>>
    /\ lastTokens = 0
    /\ totalTokens = 0
    /\ prod = NoProducer
    /\ InitBackend
    /\ \/ \E i \in 1..Len(InputTable) : ev = [NoEvent EXCEPT !.op = "value", !.cnt = i]
       \/ \E i \in 1..Len(PayloadTable) : ev = [NoEvent EXCEPT !.op = "payload", !.cnt = i]
    /\ acked = [c \in Conns |-> [f \in Fids |-> NoAck]]
    /\ clunked = [c \in Conns |-> {}]
    /\ full = <<>>
    /\ recvd = <<>>

\* v.Encode(buf): ev.n is the length it returns
EncodeValue ==
    /\ ev.op = "value"
    /\ ev' = [ev EXCEPT !.op = "encoded", !.n = Len(Encode(Input(ev.cnt)))]
    /\ UNCHANGED <<serverVars, sessVars, streamVars, backendVars, histVars>>

\* the decoder of the kind is applied to the encoded bytes: ev.qids is what it returns
DecodeValue ==
    /\ ev.op = "encoded"
    /\ ev' = [ev EXCEPT !.op = "decoded",
                        !.qids = Decode(Input(ev.cnt).kind, Encode(Input(ev.cnt)))]
    /\ UNCHANGED <<serverVars, sessVars, streamVars, backendVars, histVars>>

\* DecodeTwrite is applied to a payload as it came off the wire
DecodePayload ==
    /\ ev.op = "payload"
    /\ ev' = [ev EXCEPT !.op = "parsed", !.qids = Decode("Twrite", Payload(ev.cnt))]
    /\ UNCHANGED <<serverVars, sessVars, streamVars, backendVars, histVars>>

NextCodec == EncodeValue \/ DecodeValue \/ DecodePayload

SpecCodec == InitCodec /\ [][NextCodec]_vars

\* the value after Encode: Stat.Encode stores the size it wrote in s.Size
Encoded(v) == IF v.kind = "Stat" THEN [v EXCEPT !.Size = Len(StatBody(v)) % Limb] ELSE v

\* C30: codec round trip: for every T-message of the implemented types and every
\* Stat, Qid and string, decoding the encoded bytes yields the original value and,
\* where the decoder reports it, consumes exactly the encoded length.
C30_CodecRoundTrip ==
    ev.op = "decoded"
    => /\ ev.qids.err = ""
       /\ ev.qids.val = Encoded(Input(ev.cnt))
       /\ Input(ev.cnt).kind \in {"Stat", "Qid", "string"} => ev.qids.n = ev.n


(***************************************************************************)
(* Reads of the text files at the offsets a Tread frame can carry           *)
(***************************************************************************)
\* A has walked to ask (fid 0) and context (fid 1), B to tokens (fid 0) and usage (fid 1)
InitText ==
    /\ alive = [c \in Conns |-> TRUE]
    /\ fids = [c \in Conns |-> [f \in Fids |-> IF c = "A" THEN (IF f = 0 THEN "ask" ELSE "context")
                                               ELSE (IF f = 0 THEN "tokens" ELSE "usage")]]
    /\ msize = [c \in Conns |-> MaxMessageSize]
    /\ wire = [c \in Conns |-> NoWire]
    /\ req = [c \in Conns |-> IdleReq]
    /\ sm = [f \in Fids |-> NoSess]
    /\ sessions = [i \in SessIds |-> FreeSession]
    /\ streaming = FALSE
    /\ streamChan = 0
    /\ chans = <<>>
    /\ messages = <<>>
    /\ lastTokens = 0
    /\ totalTokens = 0
    /\ prod = NoProducer
    /\ InitBackend
    /\ ev = NoEvent
    /\ acked = [c \in Conns |-> [f \in Fids |-> NoAck]]
    /\ clunked = [c \in Conns |-> {}]
    /\ full = <<>>
    /\ recvd = <<>>

\* offsets 0, 2, 2^16 and 2^63
WireOffsets == {<<0, 0, 0, 0>>, <<2, 0, 0, 0>>, <<0, 1, 0, 0>>, <<0, 0, 0, Limb \div 2>>}
ReadCounts == {1, 64}

NextText ==
    \E c \in Conns :
        \/ \E f \in Fids, u \in WireOffsets, cnt \in ReadCounts : HandleTread(c, f, u, cnt)
        \/ \E data \in {<<"q">>} \cup Blanks : HandleWrite(c, 0, data)
        \/ \E o \in Outcomes : AskReturn(c, o)
        \/ AskAddAssistant(c)
        \/ AskAddTokens(c)
        \/ AskSetLastResponse(c)

SpecText == InitText /\ [][NextText]_vars

\* the content a read of the node of the last request serves, in the new state
ContentOf(e) ==
    IF e.node = "ask" THEN WithNewline(sessions[sm[e.fid]].lastResponse)
    ELSE IF e.node = "context" THEN MessagesJSON(sessions[sm[e.fid]]) \o <<NL>>
    ELSE TextContent(e.node)

\* bytes [o, o+c) of content, none when o is at or beyond its length
Bytes(content, o, c) ==
    [i \in 1..(IF o >= Len(content) THEN 0 ELSE Min(c, Len(content) - o)) |-> content[o + i]]

\* C31: a read of a text node at offset o with count c is answered by an Rread with
\* bytes [o, o+c) of the node's current content (the text, newline-terminated when
\* non-empty), and by a zero-byte Rread when o is at or beyond the content length.
C31_TextReadReturnsSlice ==
    [][/\ ev'.op = "Tread"
       /\ ev'.node \in {"ask", "context", "tokens", "usage"}
       => /\ ev'.res = "Rread"
          /\ ev'.off >= 0
          /\ ev'.data = Bytes(ContentOf(ev)', ev'.off, ev'.cnt)]_vars

\* C32: once a write to ask has succeeded, a read of tokens returns the token count
\* of that request and the total that usage reports includes it.
C32_TokensReportLastAsk ==
    [][/\ ev'.op = "Tread" /\ ev'.res = "Rread" /\ ev'.off = 0 /\ ev'.cnt = 64
       /\ acked["A"][0].kind = "ok"
       => LET s == sessions[sm[0]]
          IN  /\ ev'.node = "tokens" => ev'.data = Itoa(s.lastTokens) \o <<NL>>
              /\ ev'.node = "usage"
                 => \E total \in s.returned..(2 * MaxMsgs) :
                       ev'.data = Itoa(total) \o <<"/">> \o Itoa(ContextLimit) \o <<NL>>]_vars


(***************************************************************************)
(* Writes of blank content to ask, stream/ask and compact                  *)
(***************************************************************************)
\* A has walked to ask (fid 0) and stream/ask (fid 1); B writes to compact
InitBlank ==
    /\ alive = [c \in Conns |-> TRUE]
    /\ fids = [c \in Conns |-> [f \in Fids |-> IF c = "B" THEN NoNode
                                               ELSE IF f = 0 THEN "ask" ELSE "sask"]]
    /\ msize = [c \in Conns |-> MaxMessageSize]
    /\ wire = [c \in Conns |-> NoWire]
    /\ req = [c \in Conns |-> IdleReq]
    /\ sm = [f \in Fids |-> NoSess]
    /\ sessions = [i \in SessIds |-> FreeSession]
    /\ streaming = FALSE
    /\ streamChan = 0
    /\ chans = <<>>
    /\ messages = <<>>
    /\ lastTokens = 0
    /\ totalTokens = 0
    /\ prod = NoProducer
    /\ InitBackend
    /\ ev = NoEvent
    /\ acked = [c \in Conns |-> [f \in Fids |-> NoAck]]
    /\ clunked = [c \in Conns |-> {}]
    /\ full = <<>>
    /\ recvd = <<>>

BlankWrites == {<<>>, <<" ">>, <<"\n", "\t">>}

NextBlank ==
    \/ \E f \in Fids, data \in {<<"q">>} \cup BlankWrites : HandleWrite("A", f, data)
    \/ \E o \in Outcomes : AskReturn("A", o)
    \/ AskAddAssistant("A")
    \/ AskAddTokens("A")
    \/ AskSetLastResponse("A")
    \/ ProducerSend
    \/ ProducerError
    \/ ProducerRollback
    \/ ProducerCommit
    \/ ProducerCleanup
    \/ \E p \in {<<"q">>} \cup BlankWrites : CompactWrite("B", p)
    \/ Compact("B")
    \/ CompactFailed("B")
    \/ \E summary \in Summaries, usage \in CompactUsages : CompactReturn("B", summary, usage)

SpecBlank == InitBlank /\ [][NextBlank]_vars

\* no byte of s is anything but white space
Blank(s) == \A i \in 1..Len(s) : s[i] \in Whitespace

\* the last step answered a write of blank content to ask, stream/ask or compact
BlankWritten(e) ==
    e.op = "Twrite" /\ e.res # "-" /\ e.node \in {"ask", "sask", "compact"} /\ Blank(e.arg)

\* C33: a write to ask, stream/ask or compact whose content is empty or only white
\* space is answered by an Rwrite of the full byte count; it starts no backend call,
\* creates no session and changes nothing of the server, the sessions or the backend.
C33_BlankWriteIsNoop ==
    [][BlankWritten(ev')
       => /\ ev'.res = "Rwrite"
          /\ ev'.n = Len(ev'.arg)
          /\ UNCHANGED <<serverVars, sessVars, streamVars, backendVars, histVars>>]_vars

\* a blank write has been acknowledged while a stream runs and a session exists
C33_Witness ==
    /\ BlankWritten(ev)
    /\ ev.arg # <<>>
    /\ ev.res = "Rwrite"
    /\ streaming
    /\ sm[0] # NoSess


(***************************************************************************)
(* One connection that binds, uses, clunks and binds again one fid number  *)
(***************************************************************************)
NextRebind ==
    \/ HandleAttach("A", 0)
    \/ \E names \in {<<"ask">>, <<"context">>, <<"new">>} : HandleWalk("A", 0, 1, names)
    \/ \E data \in Prompts : HandleWrite("A", 1, data)
    \/ \E off \in Offsets : HandleRead("A", 1, off, 64)
    \/ HandleClunk("A", 1)
    \/ \E o \in Outcomes : AskReturn("A", o)
    \/ AskAddAssistant("A")
    \/ AskAddTokens("A")
    \/ AskSetLastResponse("A")

SpecRebind == Init /\ [][NextRebind]_vars

\* the session a read through fid f finds or creates
Found(f) == IF sm[f] = NoSess THEN NewSession(f) ELSE sessions[sm[f]]

\* C34: when a fid number that was clunked is bound again to ask or context, the
\* session its first read finds is empty: no message, no last response and no token
\* count of the previous use of the number, whatever node that use was bound to.
C34_ReboundFidStartsEmpty ==
    [][\A c \in Conns, f \in Fids :
         (f \in clunked[c] /\ f \notin clunked'[c] /\ fids'[c][f] \in {"ask", "context"})
         => /\ Found(f)'.messages = <<>>
            /\ Found(f)'.lastResponse = <<>>
            /\ Found(f)'.lastTokens = 0
            /\ Found(f)'.totalTokens = 0]_vars


\* how often message m occurs in the transcript msgs
Occurs(msgs, m) == Cardinality({i \in 1..Len(msgs) : msgs[i] = m})

\* C35: the user message of a prompt accepted on the shared backend while the
\* summarisation request of a compact was in flight is still in the transcript when
\* that compact has completed.
C35_CompactKeepsLaterMessages ==
    [][\A c \in Conns, d \in Conns :
         LET prompt == Message("user", req[d].prompt)
         IN  (/\ Compacted(c)
              /\ req[d].pc = "asking"
              /\ Occurs(messages, prompt) > Occurs(req[c].history, prompt))
             => Occurs(messages', prompt) > 0]_vars


(***************************************************************************)
(* Streams that nobody reads: stream/ask is written, stream/chunk is not    *)
(* read.  StreamAskFile.Write passes context.Background(), so ctx.Done()    *)
(* of the producer's select never fires                                    *)
(***************************************************************************)
NextUnread ==
    \/ \E c \in Conns, data \in {<<"q">>, LongPrompt} : HandleWrite(c, 0, data)
    \/ ProducerSend
    \/ ProducerError
    \/ ProducerRollback
    \/ ProducerCommit
    \/ ProducerCleanup

Producer == ProducerSend \/ ProducerError \/ ProducerRollback \/ ProducerCommit \/ ProducerCleanup

\* the goroutine of StartStream is scheduled whenever it can take a step
FairUnread == InitStream /\ [][NextUnread]_vars /\ WF_vars(Producer)

\* C36: every started stream ends, with streaming false and its queue closed, also
\* when nobody reads stream/chunk and the response has more than 100 chunks.
C36_StreamEnds ==
    [](streaming => <>(~streaming /\ \A i \in 1..Len(chans) : chans[i].closed))


(***************************************************************************)
(* Client.Ask and Client.StartStream on one backend: A writes prompts to    *)
(* the ask file of the shared tree while B starts streams                  *)
(***************************************************************************)
StreamPrompt == <<"s">>

NextStreamAsk ==
    \/ HandleWrite("B", 0, StreamPrompt)
    \/ ProducerSend
    \/ ProducerError
    \/ ProducerRollback
    \/ ProducerCommit
    \/ ProducerCleanup
    \/ \E p \in AskWrites("A") : SharedAskWrite("A", p)
    \/ Compact("A")
    \/ CompactFailed("A")
    \/ \E summary \in Summaries, usage \in CompactUsages : CompactReturn("A", summary, usage)
    \/ ClientAsk("A")
    \/ \E o \in AskOutcomes : ClientAskReturn("A", o)

SpecStreamAsk == InitStream /\ [][NextStreamAsk]_vars

\* C37: a stream that ends well appends one assistant message holding the
\* concatenation of its chunks, and a failed stream removes nothing but its own
\* user message: the user message of an ask that is in its backend call stays in
\* the transcript (the asks send prompts other than StreamPrompt).
C37_StreamTouchesOwnMessages ==
    [][/\ (prod.pc = "run" /\ prod'.pc = "cleanup")
          => messages' = Append(messages, Message("assistant", full[prod.ch].text))
       /\ (prod.pc = "rollback" /\ prod'.pc = "cleanup")
          => \A d \in Conns :
                req[d].pc = "asking"
                => Occurs(messages', Message("user", req[d].prompt))
                     = Occurs(messages, Message("user", req[d].prompt))]_vars


\* msgs is a sequence of (user, assistant) pairs
Paired(msgs) ==
    /\ Len(msgs) % 2 = 0
    /\ \A i \in 1..Len(msgs) : msgs[i].Role = (IF i % 2 = 1 THEN "user" ELSE "assistant")

\* no SessionManager.Ask is between its snapshot and its last update of session id
Quiet(id) == \A c \in Conns : req[c].pc # "idle" => req[c].sess # id

\* C38: the non-system messages of every session form consecutive (user, assistant)
\* pairs, also after asks on the same session that overlapped in time; the property
\* is stated for the sessions on which no ask is under way.
C38_MessagesArePaired ==
    \A id \in SessIds :
        (sessions[id].live /\ Quiet(id)) => Paired(NonSystem(sessions[id].messages))


\* C39: a read of stream/chunk that takes a chunk from the queue loses no byte of
\* it: the bytes it returns, followed by what the queue still holds, are what the
\* queue held before, also when the chunk is longer than the count of the read.
C39_ChunkReadLosesNothing ==
    [][(/\ ev'.op = "Tread" /\ ev'.node = "chunk" /\ ev'.res = "Rread"
        /\ ev'.ch # 0
        /\ chans[ev'.ch].q # <<>>)
       => ev'.data \o Concat(chans'[ev'.ch].q) = Concat(chans[ev'.ch].q)]_vars


\* the count declared in buf[12:16] is greater than len(buf) - 16
Overdeclared(buf) ==
    \/ Uint(Slice(buf, 14, 16)) > 0
    \/ Uint(Slice(buf, 12, 14)) > Len(buf) - 16

\* C40: DecodeTwrite returns an error for every payload whose declared count is
\* greater than len(payload) - 16, also for counts near 2^32, and the data of a
\* decoded Twrite is the count bytes that follow the header.
C40_TwriteCountChecked ==
    ev.op = "parsed"
    => LET buf == Payload(ev.cnt)
       IN  IF Overdeclared(buf)
           THEN ev.qids.err = "Twrite data truncated"
           ELSE /\ ev.qids.err = ""
                /\ ev.qids.val.Data = Slice(buf, 16, 16 + Uint(Slice(buf, 12, 14)))

====
